---- MODULE Spec2Model ----
(***************************************************************************)
(* Limit order books of the repository's drafts, as state machines.        *)
(*                                                                         *)
(*   Spec         src/orderbook_map.cpp   class Orderbook: two multimaps    *)
(*                keyed by price and a cache from order id to multimap      *)
(*                iterator; insert, cancel, modify, match(), match(Order&). *)
(*   SpecLru      src/lru_orderbook.cpp   MultiInstrumentOrderBook: price   *)
(*                levels of vectors, matched on every addOrder, and the     *)
(*                LRUCache that cancelOrder works on.                       *)
(*   SpecHandler  src/matching_engine/orderbook/orderbookhandler.cpp        *)
(*                addOrderToBook and removeOrder over price levels of       *)
(*                shared_ptr<Order> and the metadata map, with the members  *)
(*                they call as src/tasks/matching_engine/orderbook/         *)
(*                check.cpp defines them.                                   *)
(*   SpecProcessor  src/matching_engine/matching_engine.cpp, the draft kept  *)
(*                in comments there: OrderProcessor over struct Orders (two  *)
(*                multisets and orderLookup), with isValid and isModifiable. *)
(*   SpecPriceLevel  src/tasks/matching_engine/orderbook/pricelevel.cpp       *)
(*                struct PriceLevel: the deque of the orders of one price,   *)
(*                with enqueue and removeOrder.                              *)
(*   SpecPriceLevels  src/matching_engine/orderbook/pricelevels.cpp           *)
(*                class PriceLevels (find, add) as the two members bidLevels *)
(*                and askLevels of OrderBook in src/tasks/matching_engine/   *)
(*                orderbook/orderbook.h.                                     *)
(*   SpecRegistry  src/tasks/matching_engine/orderbook/check.cpp             *)
(*                addOrderToBook over orderBookByOrderIDMap: the books the   *)
(*                orders of several symbols are put into.                    *)
(*   SpecMulti    src/lru_orderbook.cpp   MultiInstrumentOrderBook fed orders *)
(*                of several instruments: one OrderBook per instrument and   *)
(*                the one LRUCache they share.                               *)
(*   SpecQuoter   src/actual_interview/eclipse_hongkong/final/               *)
(*                InstrumentQuoter.cpp   class InstrumentQuoter with the     *)
(*                requests it sends to Execution and the exchange's          *)
(*                confirmations.                                             *)
(*   SpecLruDq    src/lru/lru_dq.cpp   class LRUCache over a deque of keys   *)
(*   SpecBuffer   src/cache/benchmark/prefetch/CircularBuffer.h             *)
(*   SpecMatchLoops  the matching loops of src/orderbook_map.cpp and of      *)
(*                class OrderBook of src/lru_orderbook.cpp, each run from    *)
(*                every book its insert / addOrder builds out of a bounded   *)
(*                sequence of orders.                                        *)
(*   SpecQuoterHpp  src/actual_interview/eclipse_hongkong/                   *)
(*                InstrumentQuoter.hpp   the class as the header has it      *)
(*                (another calculatePrice, no price > 0 test in sendQuote).  *)
(*                                                                         *)
(* Each specification moves the variables of its own draft and leaves the  *)
(* others alone.  Prices are doubles in the source and are only compared;   *)
(* they are modelled as integer ticks.  Quantities are ints; the inputs are *)
(* small enough that no arithmetic overflows.                              *)
(***************************************************************************)
EXTENDS Integers, Sequences, FiniteSets, TLC

\* Bounds of the model.
MaxId == 2
MaxPrice == 2
MaxQty == 2
\* lru_orderbook.cpp: the constructor argument lruCapacity, and the number of
\* orders let into the book (addOrder itself never refuses one).
LruCapacity == 2
MaxResting == 3
\* orderbookhandler.cpp: the number of Order objects addOrderToBook is given.
MaxHandlerOrders == 3
\* matching_engine.cpp: the number of orders let into the two multisets.
MaxProcessorOrders == 2
\* pricelevel.cpp: the number of orders let into the deque of the level.
MaxLevelOrders == 3
\* pricelevels.cpp: the price ticks PriceLevels::add is given.
MaxLevelPrice == 3
\* check.cpp: the number of Order objects its addOrderToBook is given.
MaxRegistryOrders == 2
\* lru_orderbook.cpp with several instruments: the number of orders let into the
\* books together.
MaxMultiResting == 2
\* lru_dq.cpp: the keys and the values put, and the capacity of the cache.
MaxDqKey == 3
MaxDqValue == 2
DqCapacity == 2
\* CircularBuffer.h: the capacity the buffer is made with and the values pushed.
BufCapacity == 2
MaxBufValue == 2
\* The matching loops: the number of orders of the book they are run from, and
\* the prices and quantities of those orders (quantities from 0).
MaxLoopOrders == 3
MaxLoopPrice == 2
MaxLoopQty == 1
\* InstrumentQuoter: the prices it is told (theoretical, best bid, best offer), in
\* a minimal unit of which the tick is TickWidth, and the request ids it uses.
MaxQuoterPrice == 4
MaxQuoteId == 4
\* InstrumentQuoter's constructor arguments tickWidth and quoteOffset, in the
\* minimal unit: a tick of two units, an offset of one tick.
TickWidth == 2
QuoteOffset == 2

OrderIDs == 1..MaxId
Prices == 1..MaxPrice
\* Order::quantity is an int no operation validates: 0 is an input like any other.
Quantities == 0..MaxQty
Sides == {"Buy", "Sell"}
Symbols == {"AAPL", "GOOG"}
\* The instrument of the modelled book: insert() is fed orders of one instrument
\* (a request naming another one reaches modify(), which compares the symbols).
BookSymbol == "AAPL"

\* struct Order of orderbook_map.cpp
Requests == [orderID : OrderIDs, symbol : Symbols, quantity : Quantities,
             price : Prices, side : Sides]
Orders == {o \in Requests : o.symbol = BookSymbol}

VARIABLES
    \* orderbook_map.cpp
    bids,    \* Orderbook::bids, the multimap in iteration order (ascending price)
    asks,    \* Orderbook::asks, likewise
    cache,   \* Orderbook::cache: the ids that map to a multimap iterator
    status,  \* how the call just made ended: "ok", "throw" (std::runtime_error),
             \* "ub" (it went through undefined behaviour) or "crash"
    \* lru_orderbook.cpp
    buyOrders,   \* OrderBook::buyOrders: price -> vector of orders (<<>>: no such key)
    sellOrders,  \* OrderBook::sellOrders, likewise
    orderMap,    \* LRUCache::orderMap: the ids that map to a deque iterator
    orderDeque,  \* LRUCache::orderDeque, front first: the orderId of each element
    fresh,       \* the id whose iterator in orderMap is still valid, or NoId
    lruStatus,   \* how the call just made ended: "ok", "ub" or "crash"
    \* orderbookhandler.cpp
    orderObjects,               \* the Order objects handed over, by handle (1, 2, ...)
    bidLevels,                  \* OrderBook::bidLevels
    askLevels,                  \* OrderBook::askLevels
    orderMetaDataByOrderIDMap,  \* id -> OrderMetaData
    handlerStatus,              \* how the call just made ended: "ok", "ub" or "crash"
    \* matching_engine.cpp (struct Orders)
    procBuyOrders,   \* Orders::buyOrders, the multiset in iteration order
    procSellOrders,  \* Orders::sellOrders, likewise
    orderLookup,     \* Orders::orderLookup: the ids it has an entry for
    procStatus,      \* how the request just made ended: "ok" (processed), "ignored",
                     \* "ub" or "crash"
    \* tasks/matching_engine/orderbook/pricelevel.cpp
    priceLevelOrders, \* PriceLevel::orders, front first
    \* matching_engine/orderbook/pricelevels.cpp
    bidPriceLevels,   \* OrderBook::bidLevels.priceLevels, the vector front first
    askPriceLevels,   \* OrderBook::askLevels.priceLevels, likewise
    priceLevelsStatus, \* how the call just made ended: "ok", "ub" or "crash"
    \* tasks/matching_engine/orderbook/check.cpp
    orderBookByOrderIDMap,  \* key -> OrderBook (symbol, bidLevels, askLevels)
    registryOrderObjects,   \* the Order objects handed over, by handle (1, 2, ...)
    registryMetaData,       \* check.cpp's orderMetaDataByOrderIDMap: id -> OrderMetaData,
                            \* its priceLevel pointing into the book of the order
    registryStatus,         \* how the call just made ended: "ok", "ub" or "crash"
    \* lru_orderbook.cpp, several instruments
    books,       \* MultiInstrumentOrderBook::books: instrument -> OrderBook (buy, sell);
                 \* a key operator[] has not made yet is a book with no orders
    lruCache,    \* MultiInstrumentOrderBook::lruCache: orderMap, orderDeque and fresh
                 \* as in the variables of that name
    multiStatus, \* how the call just made ended: "ok", "ub" or "crash"
    \* InstrumentQuoter (final/InstrumentQuoter.cpp; the header's names in brackets)
    currentTheoreticalPrice,  \* currentTheoreticalPrice_, 0 until it is told
    exchangeBid,              \* exchangeBid_, 0 until it is told
    exchangeAsk,              \* exchangeAsk_, 0 until it is told
    nextOrderId,              \* nextOrderId_ [nextQuoteId_]
    quoterOrders,             \* orders_ [quotes_]: id -> Order (side, price, isPending)
    requests,                 \* what the call just made asked of Execution: the ids of
                              \* its requestOrderRemove calls, then its requestOrderAdd
                              \* calls in the order made
    removing,                 \* the exchange: the orders (id, side) whose removal was
                              \* requested and is not confirmed yet
    \* lru/lru_dq.cpp
    dq,        \* LRUCache::dq, front first
    dqCache,   \* LRUCache::cache: key -> value (the iterator is in dqFresh)
    dqFresh,   \* the key whose iterator in cache is still valid, or NoId
    dqStatus,  \* how the call just made ended: "ok", "ub" or "crash"
    \* cache/benchmark/prefetch/CircularBuffer.h
    bufData,   \* CircularBuffer::_data, indices 0 .. capacity
    bufBegin,  \* CircularBuffer::_begin
    bufEnd     \* CircularBuffer::_end

mapVars == <<bids, asks, cache, status>>
lruVars == <<buyOrders, sellOrders, orderMap, orderDeque, fresh, lruStatus>>
handlerVars == <<orderObjects, bidLevels, askLevels, orderMetaDataByOrderIDMap, handlerStatus>>
procVars == <<procBuyOrders, procSellOrders, orderLookup, procStatus>>
levelVars == <<priceLevelOrders>>
levelsVars == <<bidPriceLevels, askPriceLevels, priceLevelsStatus>>
registryVars == <<orderBookByOrderIDMap, registryOrderObjects, registryMetaData, registryStatus>>
multiVars == <<books, lruCache, multiStatus>>
quoterVars == <<currentTheoreticalPrice, exchangeBid, exchangeAsk, nextOrderId,
                quoterOrders, requests, removing>>
dqVars == <<dq, dqCache, dqFresh, dqStatus>>
bufVars == <<bufData, bufBegin, bufEnd>>
vars == <<mapVars, lruVars, handlerVars, procVars, levelVars, levelsVars, registryVars,
          multiVars, quoterVars, dqVars, bufVars>>

Min(a, b) == IF a <= b THEN a ELSE b

----------------------------------------------------------------------------
(* std::multimap<double, Order>                                            *)

\* The position multimap::insert gives a new element: the upper bound of its key,
\* that is, behind every element whose key is not greater.
UpperBound(m, p) == Cardinality({i \in DOMAIN m : m[i].price <= p})

MultimapInsert(m, o) ==
    LET k == UpperBound(m, o.price)
    IN  SubSeq(m, 1, k) \o <<o>> \o SubSeq(m, k + 1, Len(m))

EraseAt(m, i) == SubSeq(m, 1, i - 1) \o SubSeq(m, i + 1, Len(m))

\* A cached iterator designates the node insert() created for that id.  While the
\* id is cached no second node with the id can be created, so the id names the node.
Holds(m, id) == \E i \in DOMAIN m : m[i].orderID = id
NodeAt(m, id) == CHOOSE i \in DOMAIN m : m[i].orderID = id

\* The cached iterator of id still designates a node of one of the multimaps.
Live(b, a, c, id) == id \in c /\ (Holds(b, id) \/ Holds(a, id))

\* The multimap that owns the node of id.
OwnerSide(b, a, id) == IF Holds(b, id) THEN "Buy" ELSE "Sell"

State(b, a, c, outcome) == [bids |-> b, asks |-> a, cache |-> c, outcome |-> outcome]

----------------------------------------------------------------------------
(* Orderbook::insert                                                       *)

InsertOutcomes(b, a, c, order) ==
    IF order.orderID \in c
    THEN {State(b, a, c, "throw")}
    ELSE {State(IF order.side = "Buy" THEN MultimapInsert(b, order) ELSE b,
                IF order.side = "Buy" THEN a ELSE MultimapInsert(a, order),
                c \cup {order.orderID}, "ok")}

----------------------------------------------------------------------------
(* Orderbook::cancel                                                       *)

\* multimap::erase through an iterator whose node was already erased (match() and
\* match(Order&) erase nodes and leave the cache entry) is undefined.  What a build
\* shows besides a crash: nothing visible, or, the freed node having been handed to
\* a later insert, the erasure of that other order.
DanglingErase(b, a) ==
    {[bids |-> b, asks |-> a]}
    \cup {[bids |-> EraseAt(b, i), asks |-> a] : i \in DOMAIN b}
    \cup {[bids |-> b, asks |-> EraseAt(a, i)] : i \in DOMAIN a}

\* The node of id unlinked from the multimap that holds it.
Unlink(b, a, id) ==
    IF Holds(b, id) THEN [bids |-> EraseAt(b, NodeAt(b, id)), asks |-> a]
    ELSE [bids |-> b, asks |-> EraseAt(a, NodeAt(a, id))]

CancelOutcomes(b, a, c, order) ==
    LET id == order.orderID
    IN  IF id \notin c
        THEN {State(b, a, c, "throw")}
        ELSE IF ~Live(b, a, c, id)
        THEN \* priceLevel.erase(iter->second) on a dangling iterator
             {State(b, a, c, "crash")}
             \cup {State(r.bids, r.asks, c \ {id}, "ub") : r \in DanglingErase(b, a)}
        ELSE IF order.side # OwnerSide(b, a, id)
        THEN \* the container is chosen by the request's side: erase is called on
             \* the multimap that does not own the iterator
             {State(b, a, c, "crash"),
              State(Unlink(b, a, id).bids, Unlink(b, a, id).asks, c \ {id}, "ub")}
        ELSE {State(Unlink(b, a, id).bids, Unlink(b, a, id).asks, c \ {id}, "ok")}

----------------------------------------------------------------------------
(* Orderbook::modify                                                       *)

SetQuantity(m, i, q) == [m EXCEPT ![i].quantity = q]

ModifyOutcomes(b, a, c, order) ==
    LET id == order.orderID
    IN  IF id \notin c THEN {State(b, a, c, "throw")}
        ELSE IF ~Live(b, a, c, id)
        THEN \* existingOrder is read through a dangling iterator.  The freed node
             \* shows the erased order of this book or the node of another order:
             \* the comparison throws, or it passes and the call goes on to
             \* cancel + insert or to a write into freed memory
             {State(b, a, c, "crash"), State(b, a, c, "throw")}
             \cup (IF order.symbol # BookSymbol THEN {}
                   ELSE {State(b, a, c, "ub")}
                        \cup UNION {{State(s.bids, s.asks, s.cache, "ub")
                                     : s \in InsertOutcomes(r.bids, r.asks, c \ {id}, order)}
                                    : r \in DanglingErase(b, a)})
        ELSE LET own == OwnerSide(b, a, id)
                 m == IF own = "Buy" THEN b ELSE a
                 i == NodeAt(m, id)
                 existingOrder == m[i]
             IN  IF \/ existingOrder.orderID # order.orderID
                    \/ existingOrder.symbol # order.symbol
                    \/ existingOrder.side # order.side
                 THEN {State(b, a, c, "throw")}
                 ELSE IF existingOrder.price # order.price
                 THEN UNION {InsertOutcomes(x.bids, x.asks, x.cache, order)
                             : x \in CancelOutcomes(b, a, c, order)}
                 ELSE IF existingOrder.quantity # order.quantity
                 THEN {State(IF own = "Buy" THEN SetQuantity(b, i, order.quantity) ELSE b,
                             IF own = "Buy" THEN a ELSE SetQuantity(a, i, order.quantity),
                             c, "ok")}
                 ELSE {State(b, a, c, "ok")}

----------------------------------------------------------------------------
(* Orderbook::match() and Orderbook::match(Order&)                         *)

\* bids.rbegin() and asks.begin()
BestBid(b) == b[Len(b)]
BestAsk(a) == a[1]

DropOrSet(m, i, q) == IF q = 0 THEN EraseAt(m, i) ELSE SetQuantity(m, i, q)

\* One iteration of a matching loop, as the sequence fills records it: the order
\* that came in (0 in match(), where both orders rest), the resting order, both
\* quantities before the iteration and the quantity matched.
Fill(order, resting, matchedQuantity, book) ==
    [agg |-> order.orderID, rest |-> resting.orderID, side |-> order.side,
     limit |-> order.price, price |-> resting.price, qty |-> matchedQuantity,
     aggRem |-> order.quantity, restRem |-> resting.quantity, book |-> book]

\* MatchLoop with the price test off by one: it also stops at equal prices.
RECURSIVE MatchLoopStrict(_, _, _)
MatchLoopStrict(b, a, f) ==
    IF b = <<>> \/ a = <<>> THEN [bids |-> b, asks |-> a, fills |-> f]
    ELSE LET bestBidOrder == BestBid(b)
             bestAskOrder == BestAsk(a)
         IN  IF bestBidOrder.price <= bestAskOrder.price
             THEN [bids |-> b, asks |-> a, fills |-> f]
             ELSE LET matchedQuantity == Min(bestBidOrder.quantity, bestAskOrder.quantity)
                  IN  MatchLoopStrict(DropOrSet(b, Len(b), bestBidOrder.quantity - matchedQuantity),
                                      DropOrSet(a, 1, bestAskOrder.quantity - matchedQuantity),
                                      Append(f, Fill(bestBidOrder, bestAskOrder, matchedQuantity, a)))

RECURSIVE MatchLoop(_, _, _)
MatchLoop(b, a, f) ==
    IF b = <<>> \/ a = <<>> THEN [bids |-> b, asks |-> a, fills |-> f]
    ELSE LET bestBidOrder == BestBid(b)
             bestAskOrder == BestAsk(a)
         IN  IF bestBidOrder.price < bestAskOrder.price
             THEN [bids |-> b, asks |-> a, fills |-> f]
             ELSE LET matchedQuantity == Min(bestBidOrder.quantity, bestAskOrder.quantity)
                  IN  MatchLoop(DropOrSet(b, Len(b), bestBidOrder.quantity - matchedQuantity),
                                DropOrSet(a, 1, bestAskOrder.quantity - matchedQuantity),
                                Append(f, Fill(bestBidOrder, bestAskOrder, matchedQuantity, a)))

\* MatchBuy with the limit test off by one: it also stops at an equal price.
RECURSIVE MatchBuyStrict(_, _, _)
MatchBuyStrict(order, a, f) ==
    IF a = <<>> \/ order.quantity = 0 THEN [order |-> order, book |-> a, fills |-> f]
    ELSE LET bestAskOrder == BestAsk(a)
         IN  IF order.price <= bestAskOrder.price
             THEN [order |-> order, book |-> a, fills |-> f]
             ELSE LET matchedQuantity == Min(order.quantity, bestAskOrder.quantity)
                  IN  MatchBuyStrict([order EXCEPT !.quantity = @ - matchedQuantity],
                                     DropOrSet(a, 1, bestAskOrder.quantity - matchedQuantity),
                                     Append(f, Fill(order, bestAskOrder, matchedQuantity, a)))

\* match(Order&), Side::Buy: against asks.begin()
RECURSIVE MatchBuy(_, _, _)
MatchBuy(order, a, f) ==
    IF a = <<>> \/ order.quantity = 0 THEN [order |-> order, book |-> a, fills |-> f]
    ELSE LET bestAskOrder == BestAsk(a)
         IN  IF order.price < bestAskOrder.price
             THEN [order |-> order, book |-> a, fills |-> f]
             ELSE LET matchedQuantity == Min(order.quantity, bestAskOrder.quantity)
                  IN  MatchBuy([order EXCEPT !.quantity = @ - matchedQuantity],
                               DropOrSet(a, 1, bestAskOrder.quantity - matchedQuantity),
                               Append(f, Fill(order, bestAskOrder, matchedQuantity, a)))

\* match(Order&), Side::Sell: against bids.rbegin()
RECURSIVE MatchSell(_, _, _)
MatchSell(order, b, f) ==
    IF b = <<>> \/ order.quantity = 0 THEN [order |-> order, book |-> b, fills |-> f]
    ELSE LET bestBidOrder == BestBid(b)
         IN  IF bestBidOrder.price < order.price
             THEN [order |-> order, book |-> b, fills |-> f]
             ELSE LET matchedQuantity == Min(order.quantity, bestBidOrder.quantity)
                  IN  MatchSell([order EXCEPT !.quantity = @ - matchedQuantity],
                                DropOrSet(b, Len(b), bestBidOrder.quantity - matchedQuantity),
                                Append(f, Fill(order, bestBidOrder, matchedQuantity, b)))

\* match(Order&): the book and the caller's order when it returns, and its fills.
MatchOrderResult(b, a, order) ==
    IF order.side = "Buy"
    THEN LET r == MatchBuy(order, a, <<>>)
         IN  [bids |-> b, asks |-> r.book, order |-> r.order, fills |-> r.fills]
    ELSE LET r == MatchSell(order, b, <<>>)
         IN  [bids |-> r.book, asks |-> a, order |-> r.order, fills |-> r.fills]

----------------------------------------------------------------------------
(* lru_orderbook.cpp: class OrderBook                                      *)

LruTypes == {"buy", "sell"}

\* struct Order of lru_orderbook.cpp.  timestamp is never read; the orders are of
\* one instrument, so of one OrderBook of MultiInstrumentOrderBook::books.
LruOrders == [orderId : OrderIDs, type : LruTypes, quantity : Quantities, price : Prices]

EmptyLevels == [p \in Prices |-> <<>>]
LevelKeys(m) == {p \in Prices : m[p] # <<>>}

\* buyOrders.begin() under std::greater, sellOrders.begin() under std::less
HighestBuy(m) == CHOOSE p \in LevelKeys(m) : \A q \in LevelKeys(m) : q <= p
LowestSell(m) == CHOOSE p \in LevelKeys(m) : \A q \in LevelKeys(m) : p <= q

BookAddOrder(buy, sell, order) ==
    IF order.type = "buy"
    THEN [buy |-> [buy EXCEPT ![order.price] = Append(@, order)], sell |-> sell]
    ELSE [buy |-> buy, sell |-> [sell EXCEPT ![order.price] = Append(@, order)]]

\* The line matchOrders writes to std::cout for one match.
Matched(buyOrder, sellOrder, matchedQty) ==
    [buy |-> buyOrder.orderId, sell |-> sellOrder.orderId, quantity |-> matchedQty]

\* back().quantity -= matchedQty; pop_back() if it is now 0
TakeFromBack(v, matchedQty) ==
    IF v[Len(v)].quantity - matchedQty = 0
    THEN SubSeq(v, 1, Len(v) - 1)
    ELSE [v EXCEPT ![Len(v)].quantity = @ - matchedQty]

\* The inner loop of matchOrders over the two vectors
RECURSIVE MatchAtPrice(_, _, _)
MatchAtPrice(buyOrdersAtPrice, sellOrdersAtPrice, out) ==
    IF buyOrdersAtPrice = <<>> \/ sellOrdersAtPrice = <<>>
    THEN [buys |-> buyOrdersAtPrice, sells |-> sellOrdersAtPrice, out |-> out]
    ELSE LET buyOrder == buyOrdersAtPrice[Len(buyOrdersAtPrice)]
             sellOrder == sellOrdersAtPrice[Len(sellOrdersAtPrice)]
             matchedQty == Min(buyOrder.quantity, sellOrder.quantity)
         IN  MatchAtPrice(TakeFromBack(buyOrdersAtPrice, matchedQty),
                          TakeFromBack(sellOrdersAtPrice, matchedQty),
                          Append(out, Matched(buyOrder, sellOrder, matchedQty)))

\* OrderBook::matchOrders: the book when it returns and the lines it wrote
RECURSIVE MatchOrders(_, _, _)
MatchOrders(buy, sell, out) ==
    IF LevelKeys(buy) = {} \/ LevelKeys(sell) = {}
    THEN [buy |-> buy, sell |-> sell, out |-> out]
    ELSE LET highestBuy == HighestBuy(buy)
             lowestSell == LowestSell(sell)
         IN  IF highestBuy >= lowestSell
             THEN LET r == MatchAtPrice(buy[highestBuy], sell[lowestSell], out)
                  IN  MatchOrders([buy EXCEPT ![highestBuy] = r.buys],
                                  [sell EXCEPT ![lowestSell] = r.sells], r.out)
             ELSE [buy |-> buy, sell |-> sell, out |-> out]

----------------------------------------------------------------------------
(* lru_orderbook.cpp: class LRUCache                                       *)

NoId == 0

LruState(m, d, f, outcome) == [orderMap |-> m, orderDeque |-> d, fresh |-> f, outcome |-> outcome]

\* deque::push_front invalidates every iterator of the deque, and so does an erase
\* that is not at an end: of the iterators orderMap keeps, only the one stored last
\* (begin(), by accessOrder) is valid.  erase through an invalidated one is
\* undefined; a build crashes or takes one element out of the deque, the one the
\* id belongs to or another.
StaleErase(d) == {SubSeq(d, 1, i - 1) \o SubSeq(d, i + 1, Len(d)) : i \in DOMAIN d}

AccessOrderOutcomes(m, d, f, id) ==
    IF id \in m
    THEN IF f = id
         THEN {LruState(m, <<id>> \o Tail(d), id, "ok")}
         ELSE {LruState(m, d, f, "crash")}
              \cup {LruState(m, <<id>> \o e, id, "ub") : e \in StaleErase(d)}
    ELSE IF Len(d) = LruCapacity
    THEN {LruState((m \ {d[Len(d)]}) \cup {id}, <<id>> \o SubSeq(d, 1, Len(d) - 1), id, "ok")}
    ELSE {LruState(m \cup {id}, <<id>> \o d, id, "ok")}

RemoveOrderOutcomes(m, d, f, id) ==
    IF id \in m
    THEN IF f = id
         THEN {LruState(m \ {id}, Tail(d), NoId, "ok")}
         ELSE {LruState(m, d, f, "crash")}
              \cup {LruState(m \ {id}, e, NoId, "ub") : e \in StaleErase(d)}
    ELSE {LruState(m, d, f, "ok")}

----------------------------------------------------------------------------
(* lru_orderbook.cpp: class MultiInstrumentOrderBook                       *)

\* addOrder: the book, the cache and the lines written when it returns
AddOrderOutcomes(buy, sell, m, d, f, order) ==
    LET added == BookAddOrder(buy, sell, order)
    IN  {IF x.outcome = "crash"
         THEN [buy |-> added.buy, sell |-> added.sell, lru |-> x, out |-> <<>>]
         ELSE LET r == MatchOrders(added.buy, added.sell, <<>>)
              IN  [buy |-> r.buy, sell |-> r.sell, lru |-> x, out |-> r.out]
         : x \in AccessOrderOutcomes(m, d, f, order.orderId)}

\* cancelOrder: containsOrder, getOrder (which reads through the iterator) and
\* LRUCache::removeOrder; the books are not touched
CancelOrderOutcomes(buy, sell, m, d, f, orderId) ==
    {[buy |-> buy, sell |-> sell, lru |-> x] : x \in RemoveOrderOutcomes(m, d, f, orderId)}

RECURSIVE CountOrders(_, _)
CountOrders(m, S) ==
    IF S = {} THEN 0
    ELSE LET p == CHOOSE q \in S : TRUE IN Len(m[p]) + CountOrders(m, S \ {p})

----------------------------------------------------------------------------
(* matching_engine/orderbook/orderbookhandler.cpp                          *)

OrderTypes == {"GFD", "IOC"}
HandlerSides == {"BUY", "SELL"}

\* struct Order of orderbook.h.  qty is read by neither operation; the orders are
\* of one sym, so of one OrderBook of orderBookBySymbolMap.
HandlerOrders == [id : OrderIDs, price : Prices, type : OrderTypes, side : HandlerSides]

\* A null shared_ptr<Order>; Order objects are named by their handles 1, 2, ...
NullOrder == 0
\* A shared_ptr<PriceLevel>: the vector that holds the level and its position
\* there (levels are only ever appended); index 0 is the null pointer.
NullLevel == [side |-> "none", index |-> 0]
LevelPtr(side, index) == [side |-> side, index |-> index]

\* PriceLevel::PriceLevel(double)
NewPriceLevel(price) ==
    [price |-> price, firstOrder |-> NullOrder, lastOrder |-> NullOrder, orders |-> <<>>]

\* OrderMetaData() = default
DefaultMetaData == [priceLevel |-> NullLevel, nextOrder |-> NullOrder, prevOrder |-> NullOrder]

\* unordered_map::operator[]: the entry of the key, default-constructed if absent
MetaAt(meta, id) == IF id \in DOMAIN meta THEN meta[id] ELSE DefaultMetaData
SetMeta(meta, id, md) == [k \in DOMAIN meta \cup {id} |-> IF k = id THEN md ELSE meta[k]]
EraseMeta(meta, id) == [k \in DOMAIN meta \ {id} |-> meta[k]]

HandlerState(o, bl, al, meta, outcome) ==
    [orderObjects |-> o, bidLevels |-> bl, askLevels |-> al,
     orderMetaDataByOrderIDMap |-> meta, outcome |-> outcome]

\* OrderBook::findInsertionPosition: find_if from the back for a level whose
\* price is not above the order's; 0 when find_if returns crend()
FindInsertionPosition(levels, order) ==
    LET found == {i \in DOMAIN levels : order.price >= levels[i].price}
    IN  IF found = {} THEN 0 ELSE CHOOSE i \in found : \A j \in found : j <= i

\* PriceLevel::addOrder
LevelAddOrder(level, order) ==
    [level EXCEPT !.orders = Append(@, order),
                  !.lastOrder = order,
                  !.firstOrder = IF level.orders = <<>> THEN order ELSE @]

\* addOrderToBook from the price level on
AddAtLevel(o, bl, al, meta, order, index, outcome) ==
    LET levels == IF order.side = "BUY" THEN bl ELSE al
        priceLevel == levels[index]
        newOrder == Len(o) + 1
        lastOrderAtThisPrice == priceLevel.orders[Len(priceLevel.orders)]
        linked == IF priceLevel.orders # <<>>
                  THEN SetMeta(meta, o[lastOrderAtThisPrice].id,
                               [MetaAt(meta, o[lastOrderAtThisPrice].id)
                                   EXCEPT !.nextOrder = newOrder])
                  ELSE meta
        added == LevelAddOrder(priceLevel, newOrder)
        newOrderMetaData ==
            [priceLevel |-> LevelPtr(order.side, index),
             nextOrder |-> NullOrder,
             prevOrder |-> IF Len(added.orders) > 1
                           THEN added.orders[Len(added.orders) - 1] ELSE NullOrder]
        after == [levels EXCEPT ![index] = added]
    IN  HandlerState(Append(o, order),
                     IF order.side = "BUY" THEN after ELSE bl,
                     IF order.side = "BUY" THEN al ELSE after,
                     SetMeta(linked, order.id, newOrderMetaData), outcome)

\* addOrderToBook.  When no level is found findInsertionPosition dereferences
\* crend(): undefined; the build crashes, or the read yields a null pointer and
\* findOrCreatePriceLevel appends a level of the order's price.
AddOrderToBookOutcomes(o, bl, al, meta, order) ==
    LET levels == IF order.side = "BUY" THEN bl ELSE al
        pos == FindInsertionPosition(levels, order)
        created == Append(levels, NewPriceLevel(order.price))
    IN  IF pos # 0
        THEN {AddAtLevel(o, bl, al, meta, order, pos, "ok")}
        ELSE {HandlerState(o, bl, al, meta, "crash"),
              AddAtLevel(o, IF order.side = "BUY" THEN created ELSE bl,
                         IF order.side = "BUY" THEN al ELSE created,
                         meta, order, Len(created), "ub")}

\* std::find(orders.begin(), orders.end(), p): the position of p, 0 for end()
FindOrder(orders, p) ==
    IF \E i \in DOMAIN orders : orders[i] = p
    THEN CHOOSE i \in DOMAIN orders : orders[i] = p
    ELSE 0

\* removeOrder(order), which reads order.id only
RemoveOrderFromBookOutcomes(o, bl, al, meta, id) ==
    IF id \notin DOMAIN meta
    THEN {HandlerState(o, bl, al, meta, "ok")}
    ELSE LET metaData == meta[id]
             ptr == metaData.priceLevel
         IN  IF ptr.index = 0
             THEN \* priceLevel->orders through the null pointer of an entry that
                  \* operator[] created
                  {HandlerState(o, bl, al, meta, "crash")}
             ELSE LET levels == IF ptr.side = "BUY" THEN bl ELSE al
                      priceLevel == levels[ptr.index]
                      orderIt == FindOrder(priceLevel.orders, metaData.prevOrder)
                  IN  IF orderIt = 0
                      THEN {HandlerState(o, bl, al, EraseMeta(meta, id), "ok")}
                      ELSE IF priceLevel.firstOrder = NullOrder \/ priceLevel.lastOrder = NullOrder
                      THEN \* firstOrder->id / lastOrder->id through a null pointer
                           {HandlerState(o, bl, al, meta, "crash")}
                      ELSE LET erased ==
                                   [priceLevel EXCEPT
                                       !.orders = SubSeq(@, 1, orderIt - 1)
                                                  \o SubSeq(@, orderIt + 1, Len(@)),
                                       !.firstOrder = IF o[@].id = id
                                                      THEN metaData.nextOrder ELSE @,
                                       !.lastOrder = IF o[@].id = id
                                                     THEN metaData.prevOrder ELSE @]
                               after == [levels EXCEPT ![ptr.index] = erased]
                               prevId == o[metaData.prevOrder].id
                               relinked == SetMeta(meta, prevId,
                                                   [MetaAt(meta, prevId)
                                                       EXCEPT !.nextOrder = metaData.nextOrder])
                               nextId == o[metaData.nextOrder].id
                               relinked2 ==
                                   IF metaData.nextOrder # NullOrder
                                   THEN SetMeta(relinked, nextId,
                                                [MetaAt(relinked, nextId)
                                                    EXCEPT !.prevOrder = metaData.prevOrder])
                                   ELSE relinked
                               done(outcome) ==
                                   HandlerState(o,
                                                IF ptr.side = "BUY" THEN after ELSE bl,
                                                IF ptr.side = "BUY" THEN al ELSE after,
                                                EraseMeta(relinked2, id), outcome)
                           IN  IF DOMAIN relinked2 # DOMAIN meta
                               THEN \* operator[] inserted: if the table rehashed, `it`
                                    \* is invalid when erase(it) is reached
                                    {done("ub"), HandlerState(o, bl, al, meta, "crash")}
                               ELSE {done("ok")}

----------------------------------------------------------------------------
(* matching_engine/matching_engine.cpp: the draft in comments              *)

\* A std::string id: 0 is the empty string.
EmptyId == 0
ProcessorIds == {EmptyId} \cup OrderIDs
\* price and qty are uint64_t: 0 is the only value that is <= 0.
ProcessorPrices == 0..MaxPrice
ProcessorQtys == 0..MaxQty

\* struct Order, struct CancelOrder and struct ModifyOrder of the draft
ProcessorOrders == [id : ProcessorIds, price : ProcessorPrices, qty : ProcessorQtys,
                    type : OrderTypes, side : HandlerSides]
ModifyRequests == [id : ProcessorIds, price : ProcessorPrices, qty : ProcessorQtys,
                   side : HandlerSides]

\* isValid for a request with price and qty (Order, ModifyOrder)
IsValid(order) == ~(order.id = EmptyId \/ order.price <= 0 \/ order.qty <= 0)
\* isValid for a request with an id only (CancelOrder)
IsValidId(id) == ~(id = EmptyId)

\* isModifiable: false, with a warning, for an order of type GFD
IsModifiable(order) == IF order.type = "GFD" THEN FALSE ELSE TRUE

ProcState(b, s, l, outcome) ==
    [buyOrders |-> b, sellOrders |-> s, orderLookup |-> l, outcome |-> outcome]

\* multiset::insert under buyOrderComparer (lhs.price > rhs.price) and under
\* sellOrderComparer (lhs.price < rhs.price): behind the equivalent elements
BuySetInsert(b, order) ==
    LET k == Cardinality({i \in DOMAIN b : b[i].price >= order.price})
    IN  SubSeq(b, 1, k) \o <<order>> \o SubSeq(b, k + 1, Len(b))
SellSetInsert(s, order) ==
    LET k == Cardinality({i \in DOMAIN s : s[i].price <= order.price})
    IN  SubSeq(s, 1, k) \o <<order>> \o SubSeq(s, k + 1, Len(s))

\* Orders::insert with actualInsert.  The entry orderLookup[order.id] is created
\* holding a value-initialized SellOrderIterator; the lambda of actualInsert
\* assigns the new iterator to its own by-value parameter, so the entry keeps it.
OrdersInsert(b, s, l, order) ==
    IF order.id \in l
    THEN ProcState(b, s, l, "ignored")
    ELSE IF order.side = "BUY"
    THEN ProcState(BuySetInsert(b, order), s, l \cup {order.id}, "ok")
    ELSE ProcState(b, SellSetInsert(s, order), l \cup {order.id}, "ok")

\* multiset::erase(key): every element equivalent to the key, here of its price
EraseKey(s, price) == SelectSeq(s, LAMBDA o : o.price # price)

\* Orders::erase.  The variant of every entry holds the singular SellOrderIterator:
\* sellOrders.erase(*it) dereferences it, which is undefined.  The build crashes, or
\* reads some Order and erases the sell orders of that price.
OrdersErase(b, s, l, orderid) ==
    IF orderid \in l
    THEN {ProcState(b, s, l, "crash")}
         \cup {ProcState(b, EraseKey(s, p), l \ {orderid}, "ub") : p \in ProcessorPrices}
    ELSE {ProcState(b, s, l, "ok")}

\* OrderProcessor::operator()(Order&)
ProcessOrderOutcomes(b, s, l, order) ==
    IF IsValid(order)
    THEN {OrdersInsert(b, s, l, order)}
    ELSE {ProcState(b, s, l, "ignored")}

\* OrderProcessor::operator()(CancelOrder&)
ProcessCancelOutcomes(b, s, l, id) ==
    IF IsValidId(id)
    THEN {IF x.outcome = "ok" THEN ProcState(b, s, l, "ignored") ELSE x
          : x \in OrdersErase(b, s, l, id)}
    ELSE {ProcState(b, s, l, "ignored")}

\* OrderProcessor::operator()(ModifyOrder&).  Orders::at returns a
\* default-initialized Order (type, price, qty and side indeterminate) whose id it
\* reads through the singular iterator: the build crashes, or the order carries
\* some id and some type.
ProcessModifyOutcomes(b, s, l, modifyRequest) ==
    IF ~IsValid(modifyRequest) \/ modifyRequest.id \notin l
    THEN {ProcState(b, s, l, "ignored")}
    ELSE {ProcState(b, s, l, "crash")}
         \cup UNION {
                LET newOrderFromExisting ==
                        [id |-> g, price |-> modifyRequest.price, qty |-> modifyRequest.qty,
                         type |-> ty, side |-> modifyRequest.side]
                IN  IF ~IsModifiable(newOrderFromExisting)
                    THEN {ProcState(b, s, l, "ignored")}
                    ELSE {IF e.outcome = "crash" THEN e
                          ELSE LET i == OrdersInsert(e.buyOrders, e.sellOrders,
                                                     e.orderLookup, newOrderFromExisting)
                               IN  ProcState(i.buyOrders, i.sellOrders, i.orderLookup, "ub")
                          : e \in OrdersErase(b, s, l, modifyRequest.id)}
                : g \in ProcessorIds, ty \in OrderTypes}

----------------------------------------------------------------------------
(* tasks/matching_engine/orderbook/pricelevel.cpp: struct PriceLevel      *)

\* struct Order of tasks/.../orderbook.h as a PriceLevel holds it.  Neither
\* operation reads price, type, side or sym; Order's move operations carry every
\* field over.
LevelOrders == [id : OrderIDs, qty : Quantities]

\* enqueue with emplace_front for emplace_back
PriceLevelEnqueueFront(orders, order) == <<order>> \o orders

\* PriceLevel::enqueue: orders.emplace_back(std::move(order))
PriceLevelEnqueue(orders, order) == Append(orders, order)

\* PriceLevel::findOrder: find_if from the back; it hands out iter.base(), which
\* is the position behind the order found (Len + 1 is end()).
PriceLevelFindOrder(orders, order) ==
    LET hits == {i \in DOMAIN orders : order.id = orders[i].id}
    IN  IF hits = {}
        THEN [first |-> FALSE, second |-> Len(orders) + 1]
        ELSE [first |-> TRUE, second |-> (CHOOSE i \in hits : \A k \in hits : k <= i) + 1]

\* PriceLevel::removeOrder: std::erase_if(orders, id == order.id); the deque
\* after it and the number of erased elements it returns
PriceLevelRemoveOrder(orders, order) ==
    LET kept == SelectSeq(orders, LAMBDA ord : ~(order.id = ord.id))
    IN  [orders |-> kept, erased |-> Len(orders) - Len(kept)]

----------------------------------------------------------------------------
(* matching_engine/orderbook/pricelevels.cpp: class PriceLevels           *)

LevelPrices == 1..MaxLevelPrice

\* PriceLevel::PriceLevel(Price) of tasks/.../pricelevel.cpp: the price and an
\* empty deque
PriceLevelOf(price) == [price |-> price, orders |-> <<>>]

\* PriceLevels::find: find_if from the back; it hands out iter.base(), which is
\* the position behind the level found (Len + 1 is end()).
PriceLevelsFind(priceLevels, price) ==
    LET hits == {i \in DOMAIN priceLevels : price = priceLevels[i].price}
    IN  IF hits = {}
        THEN [first |-> FALSE, second |-> Len(priceLevels) + 1]
        ELSE [first |-> TRUE, second |-> (CHOOSE i \in hits : \A j \in hits : j <= i) + 1]

\* PriceLevels::add: the vector when it returns.  *result.second of a level found
\* at the back is *end(): undefined; the build crashes or hands out a reference
\* to whatever lies behind the vector's elements.
PriceLevelsAddOutcomes(priceLevels, price) ==
    LET result == PriceLevelsFind(priceLevels, price)
    IN  IF result.first
        THEN IF result.second = Len(priceLevels) + 1
             THEN {[priceLevels |-> priceLevels, outcome |-> "crash"],
                   [priceLevels |-> priceLevels, outcome |-> "ub"]}
             ELSE {[priceLevels |-> priceLevels, outcome |-> "ok"]}
        ELSE {[priceLevels |-> Append(priceLevels, PriceLevelOf(price)), outcome |-> "ok"]}

----------------------------------------------------------------------------
(* tasks/matching_engine/orderbook/check.cpp: addOrderToBook               *)

\* struct Order of check.cpp, sym included: it names the book the order is for.
RegistryOrders == [id : OrderIDs, price : Prices, type : OrderTypes, side : HandlerSides,
                   sym : Symbols]

\* OrderBook::OrderBook(string sym)
OrderBookOf(sym) == [symbol |-> sym, bidLevels |-> <<>>, askLevels |-> <<>>]

\* orderBookByOrderIDMap.try_emplace(newOrder->id, OrderBook(newOrder->sym)): the
\* map with the entry of the key in it, made only if the key had none
TryEmplace(bookMap, key, book) ==
    IF key \in DOMAIN bookMap THEN bookMap
    ELSE [k \in DOMAIN bookMap \cup {key} |-> IF k = key THEN book ELSE bookMap[k]]

\* check.cpp's addOrderToBook: the entry of newOrder->id is the book, and from
\* findOrCreatePriceLevel on it is addOrderToBook of orderbookhandler.cpp
RegistryAddOrderOutcomes(bookMap, o, meta, newOrder) ==
    LET emplaced == TryEmplace(bookMap, newOrder.id, OrderBookOf(newOrder.sym))
        orderBook == emplaced[newOrder.id]
    IN  {[books |-> [emplaced EXCEPT ![newOrder.id] =
                        [symbol |-> orderBook.symbol,
                         bidLevels |-> x.bidLevels, askLevels |-> x.askLevels]],
          orderObjects |-> x.orderObjects,
          metaData |-> x.orderMetaDataByOrderIDMap,
          outcome |-> x.outcome]
         : x \in AddOrderToBookOutcomes(o, orderBook.bidLevels, orderBook.askLevels,
                                        meta, newOrder)}

----------------------------------------------------------------------------
(* lru_orderbook.cpp: MultiInstrumentOrderBook over several instruments    *)

\* struct Order of lru_orderbook.cpp with its instrument
MultiOrders == [orderId : OrderIDs, type : LruTypes, quantity : Quantities, price : Prices,
                instrument : Symbols]

\* addOrder: books[order.instrument] takes the order and is matched; the cache
\* is the one of all instruments
MultiAddOrderOutcomes(bs, c, order) ==
    {[books |-> [bs EXCEPT ![order.instrument] = [buy |-> x.buy, sell |-> x.sell]],
      lruCache |-> [orderMap |-> x.lru.orderMap, orderDeque |-> x.lru.orderDeque,
                    fresh |-> x.lru.fresh],
      outcome |-> x.lru.outcome]
     : x \in AddOrderOutcomes(bs[order.instrument].buy, bs[order.instrument].sell,
                              c.orderMap, c.orderDeque, c.fresh, order)}

\* cancelOrder(orderId): it names no instrument and works on the cache alone
MultiCancelOrderOutcomes(bs, c, orderId) ==
    {[books |-> bs,
      lruCache |-> [orderMap |-> x.orderMap, orderDeque |-> x.orderDeque, fresh |-> x.fresh],
      outcome |-> x.outcome]
     : x \in RemoveOrderOutcomes(c.orderMap, c.orderDeque, c.fresh, orderId)}

RECURSIVE CountBooks(_, _)
CountBooks(bs, S) ==
    IF S = {} THEN 0
    ELSE LET i == CHOOSE j \in S : TRUE
         IN  CountOrders(bs[i].buy, Prices) + CountOrders(bs[i].sell, Prices)
             + CountBooks(bs, S \ {i})

----------------------------------------------------------------------------
(* actual_interview/eclipse_hongkong: class InstrumentQuoter               *)

QuoterPrices == 0..MaxQuoterPrice
QuoterSides == {"B", "S"}

\* The InstrumentQuoter: its data members that change.
Quoter(theo, bid, ask, next, orders) ==
    [currentTheoreticalPrice |-> theo, exchangeBid |-> bid, exchangeAsk |-> ask,
     nextOrderId |-> next, orders |-> orders]

\* struct Order (quoteVolume_ is the same in all of them)
QuoterOrder(side, price, pending) == [side |-> side, price |-> price, isPending |-> pending]

NoRequests == [removes |-> {}, adds |-> <<>>]

\* std::round(price / tickWidth_) * tickWidth_: to the nearest tick, a half away
\* from zero
RoundToTick(price) ==
    IF price >= 0
    THEN ((2 * price + TickWidth) \div (2 * TickWidth)) * TickWidth
    ELSE -(((2 * (-price) + TickWidth) \div (2 * TickWidth)) * TickWidth)

ValidOffset(q, order) ==
    IF order.side = "B"
    THEN q.currentTheoreticalPrice - order.price >= QuoteOffset
    ELSE order.price - q.currentTheoreticalPrice >= QuoteOffset

NotCrossing(q, order) ==
    IF order.side = "B"
    THEN q.exchangeAsk <= 0 \/ order.price < q.exchangeAsk
    ELSE q.exchangeBid <= 0 \/ order.price > q.exchangeBid

IdentifyInvalidOrders(q) ==
    {id \in DOMAIN q.orders :
        /\ ~q.orders[id].isPending
        /\ (~ValidOffset(q, q.orders[id]) \/ ~NotCrossing(q, q.orders[id]))}

\* cancelOrders: orders_.erase(id) and requestOrderRemove(id) for each id
CancelOrders(q, orderIds) ==
    [q EXCEPT !.orders = [id \in DOMAIN q.orders \ orderIds |-> q.orders[id]]]

\* calculatePrice of final/InstrumentQuoter.cpp
CalculatePrice(q, side) ==
    LET theoreticalPrice == IF side = "B"
                            THEN RoundToTick(q.currentTheoreticalPrice - QuoteOffset)
                            ELSE RoundToTick(q.currentTheoreticalPrice + QuoteOffset)
    IN  IF side = "B"
        THEN IF q.exchangeAsk > 0
             THEN Min(theoreticalPrice, q.exchangeAsk - TickWidth)
             ELSE theoreticalPrice
        ELSE IF q.exchangeBid > 0
             THEN -Min(-theoreticalPrice, -(q.exchangeBid + TickWidth))
             ELSE theoreticalPrice

\* calculatePrice of InstrumentQuoter.hpp
CalculatePriceHpp(q, side) ==
    LET price == IF side = "B"
                 THEN RoundToTick(q.currentTheoreticalPrice - QuoteOffset)
                 ELSE RoundToTick(q.currentTheoreticalPrice + QuoteOffset)
    IN  IF side = "B" /\ q.exchangeBid > 0
        THEN Min(price, RoundToTick(q.exchangeBid - TickWidth))
        ELSE IF side = "S" /\ q.exchangeAsk > 0
        THEN -Min(-price, -RoundToTick(q.exchangeAsk + TickWidth))
        ELSE price

HasAnyQuote(q, side, checkPending) ==
    \E id \in DOMAIN q.orders :
        q.orders[id].side = side /\ q.orders[id].isPending = checkPending

\* shouldSendQuote looking at the live quotes only
ShouldSendQuoteLiveOnly(q, side) == ~HasAnyQuote(q, side, FALSE)

ShouldSendQuote(q, side) == ~HasAnyQuote(q, side, FALSE) /\ ~HasAnyQuote(q, side, TRUE)

\* orders_.emplace(id, Order(side, price, quoteVolume_, true)) with id = nextOrderId_++
\* and requestOrderAdd(id, feedcode_, side, price, quoteVolume_)
Emplace(s, side, price) ==
    LET id == s.q.nextOrderId
    IN  [q |-> [s.q EXCEPT !.nextOrderId = id + 1,
                           !.orders = [k \in DOMAIN s.q.orders \cup {id} |->
                                          IF k = id THEN QuoterOrder(side, price, TRUE)
                                          ELSE s.q.orders[k]]],
         adds |-> Append(s.adds, [id |-> id, side |-> side, price |-> price])]

\* sendQuote of final/InstrumentQuoter.cpp
SendQuote(s, side) ==
    LET price == CalculatePrice(s.q, side)
    IN  IF price > 0 THEN Emplace(s, side, price) ELSE s

\* sendQuote of InstrumentQuoter.hpp
SendQuoteHpp(s, side) == Emplace(s, side, CalculatePriceHpp(s.q, side))

\* processMarketUpdate of final/InstrumentQuoter.cpp: the quoter when it returns
\* and what it asked of Execution
ProcessMarketUpdate(q) ==
    LET toCancel == IdentifyInvalidOrders(q)
        s0 == [q |-> CancelOrders(q, toCancel), adds |-> <<>>]
        s1 == IF ShouldSendQuote(s0.q, "B") THEN SendQuote(s0, "B") ELSE s0
        s2 == IF ShouldSendQuote(s1.q, "S") THEN SendQuote(s1, "S") ELSE s1
        sent == IF q.currentTheoreticalPrice > 0 THEN s2 ELSE s0
    IN  [q |-> sent.q, removes |-> toCancel, adds |-> sent.adds,
         removed |-> {[id |-> id, side |-> q.orders[id].side] : id \in toCancel}]

\* processMarketUpdate of InstrumentQuoter.hpp
ProcessMarketUpdateHpp(q) ==
    LET toCancel == IdentifyInvalidOrders(q)
        s0 == [q |-> CancelOrders(q, toCancel), adds |-> <<>>]
        s1 == IF ShouldSendQuote(s0.q, "B") THEN SendQuoteHpp(s0, "B") ELSE s0
        s2 == IF ShouldSendQuote(s1.q, "S") THEN SendQuoteHpp(s1, "S") ELSE s1
        sent == IF q.currentTheoreticalPrice # 0 THEN s2 ELSE s0
    IN  [q |-> sent.q, removes |-> toCancel, adds |-> sent.adds,
         removed |-> {[id |-> id, side |-> q.orders[id].side] : id \in toCancel}]

----------------------------------------------------------------------------
(* lru/lru_dq.cpp: class LRUCache                                          *)

DqKeys == 1..MaxDqKey
DqValues == 1..MaxDqValue
\* What get returns for a key it does not find
NotFound == -1

DqState(d, c, f, returned, outcome) ==
    [dq |-> d, cache |-> c, fresh |-> f, returned |-> returned, outcome |-> outcome]

\* cache[key] = {value, ...}
DqSet(c, key, value) == [k \in DOMAIN c \cup {key} |-> IF k = key THEN value ELSE c[k]]

\* moveToFront: dq.erase(cache[key].second), push_front, the iterator stored
\* anew.  push_front invalidates every iterator of the deque, so of the
\* iterators cache keeps only the one stored last is valid; erase through
\* another one is undefined: the build crashes or takes one element out of the
\* deque, the one of the key or another.
DqMoveToFront(d, c, f, key, returned) ==
    IF f = key
    THEN {DqState(<<key>> \o Tail(d), c, key, returned, "ok")}
    ELSE {DqState(d, c, f, returned, "crash")}
         \cup {DqState(<<key>> \o e, c, key, returned, "ub") : e \in StaleErase(d)}

\* LRUCache::get
DqGetOutcomes(d, c, f, key) ==
    IF key \notin DOMAIN c
    THEN {DqState(d, c, f, NotFound, "ok")}
    ELSE DqMoveToFront(d, c, f, key, c[key])

\* LRUCache::put
DqPutOutcomes(d, c, f, key, value) ==
    IF key \in DOMAIN c
    THEN DqMoveToFront(d, DqSet(c, key, value), f, key, NotFound)
    ELSE IF Len(d) = DqCapacity
    THEN LET lru == d[Len(d)]
         IN  {DqState(<<key>> \o SubSeq(d, 1, Len(d) - 1),
                      DqSet([k \in DOMAIN c \ {lru} |-> c[k]], key, value),
                      key, NotFound, "ok")}
    ELSE {DqState(<<key>> \o d, DqSet(c, key, value), key, NotFound, "ok")}

----------------------------------------------------------------------------
(* cache/benchmark/prefetch/CircularBuffer.h: class CircularBuffer         *)

BufValues == 1..MaxBufValue
\* T(): what _data(capacity + 1) fills the vector with
DefaultValue == 0

Buffer(data, begin, end) == [data |-> data, begin |-> begin, end |-> end]

\* _data.size()
DataSize(b) == Cardinality(DOMAIN b.data)

BufEmpty(b) == b.begin = b.end

BufFull(b) == IF b.end = DataSize(b) - 1 THEN b.begin = 0 ELSE b.end + 1 = b.begin

BufSize(b) == IF b.end >= b.begin THEN b.end - b.begin ELSE DataSize(b) - b.begin + b.end

BufAdvance(b, idx) == IF idx < DataSize(b) - 1 THEN idx + 1 ELSE 0

BufReverse(b, idx) == IF idx > 0 THEN idx - 1 ELSE DataSize(b) - 1

PushFront(b, value) ==
    LET end == IF BufFull(b) THEN BufReverse(b, b.end) ELSE b.end
    IN  Buffer([b.data EXCEPT ![b.begin] = value], BufReverse(b, b.begin), end)

PushBack(b, value) ==
    LET begin == IF BufFull(b) THEN BufAdvance(b, b.begin) ELSE b.begin
    IN  Buffer([b.data EXCEPT ![b.end] = value], begin, BufAdvance(b, b.end))

\* pop_front, pop_back: the buffer when it returns and the value returned; on
\* an empty buffer they throw std::out_of_range
PopFront(b) ==
    IF BufEmpty(b) THEN [buffer |-> b, outcome |-> "throw"]
    ELSE [buffer |-> Buffer(b.data, BufAdvance(b, b.begin), b.end),
          outcome |-> "ok", returned |-> b.data[b.begin]]

PopBack(b) ==
    IF BufEmpty(b) THEN [buffer |-> b, outcome |-> "throw"]
    ELSE [buffer |-> Buffer(b.data, b.begin, BufReverse(b, b.end)),
          outcome |-> "ok", returned |-> b.data[b.end]]

\* front(), back() of a buffer that is not empty
Front(b) == b.data[b.begin]

Back(b) == IF b.end > 0 THEN b.data[b.end - 1] ELSE b.data[DataSize(b) - 1]

----------------------------------------------------------------------------
(* The state machines                                                      *)

\* Everything but the two books and the cache of orderbook_map.cpp, as
\* constructed
InitRest ==
    /\ status = "ok"
    /\ orderMap = {}
    /\ orderDeque = <<>>
    /\ fresh = NoId
    /\ lruStatus = "ok"
    /\ orderObjects = <<>>
    /\ bidLevels = <<>>
    /\ askLevels = <<>>
    /\ orderMetaDataByOrderIDMap = <<>>
    /\ handlerStatus = "ok"
    /\ procBuyOrders = <<>>
    /\ procSellOrders = <<>>
    /\ orderLookup = {}
    /\ procStatus = "ok"
    /\ priceLevelOrders = <<>>
    /\ bidPriceLevels = <<>>
    /\ askPriceLevels = <<>>
    /\ priceLevelsStatus = "ok"
    /\ orderBookByOrderIDMap = <<>>
    /\ registryOrderObjects = <<>>
    /\ registryMetaData = <<>>
    /\ registryStatus = "ok"
    /\ books = [instrument \in Symbols |-> [buy |-> EmptyLevels, sell |-> EmptyLevels]]
    /\ lruCache = [orderMap |-> {}, orderDeque |-> <<>>, fresh |-> NoId]
    /\ multiStatus = "ok"
    /\ currentTheoreticalPrice = 0
    /\ exchangeBid = 0
    /\ exchangeAsk = 0
    /\ nextOrderId = 1
    /\ quoterOrders = <<>>
    /\ requests = NoRequests
    /\ removing = {}
    /\ dq = <<>>
    /\ dqCache = <<>>
    /\ dqFresh = NoId
    /\ dqStatus = "ok"
    /\ bufData = [i \in 0..BufCapacity |-> DefaultValue]
    /\ bufBegin = 0
    /\ bufEnd = 0

Init ==
    /\ bids = <<>>
    /\ asks = <<>>
    /\ cache = {}
    /\ buyOrders = EmptyLevels
    /\ sellOrders = EmptyLevels
    /\ InitRest

\* orderbook_map.cpp
Running == status # "crash"

Insert(order) ==
    /\ Running
    /\ \E x \in InsertOutcomes(bids, asks, cache, order) :
        /\ bids' = x.bids
        /\ asks' = x.asks
        /\ cache' = x.cache
        /\ status' = x.outcome
    /\ UNCHANGED <<lruVars, handlerVars, procVars, levelVars, levelsVars, registryVars, multiVars, quoterVars, dqVars, bufVars>>

Cancel(order) ==
    /\ Running
    /\ \E x \in CancelOutcomes(bids, asks, cache, order) :
        /\ bids' = x.bids
        /\ asks' = x.asks
        /\ cache' = x.cache
        /\ status' = x.outcome
    /\ UNCHANGED <<lruVars, handlerVars, procVars, levelVars, levelsVars, registryVars, multiVars, quoterVars, dqVars, bufVars>>

Modify(order) ==
    /\ Running
    /\ \E x \in ModifyOutcomes(bids, asks, cache, order) :
        /\ bids' = x.bids
        /\ asks' = x.asks
        /\ cache' = x.cache
        /\ status' = x.outcome
    /\ UNCHANGED <<lruVars, handlerVars, procVars, levelVars, levelsVars, registryVars, multiVars, quoterVars, dqVars, bufVars>>

Match ==
    /\ Running
    /\ LET r == MatchLoop(bids, asks, <<>>)
       IN  /\ bids' = r.bids
           /\ asks' = r.asks
    /\ status' = "ok"
    /\ UNCHANGED <<cache, lruVars, handlerVars, procVars, levelVars, levelsVars, registryVars, multiVars, quoterVars, dqVars, bufVars>>

MatchOrder(order) ==
    /\ Running
    /\ LET r == MatchOrderResult(bids, asks, order)
       IN  /\ bids' = r.bids
           /\ asks' = r.asks
    /\ status' = "ok"
    /\ UNCHANGED <<cache, lruVars, handlerVars, procVars, levelVars, levelsVars, registryVars, multiVars, quoterVars, dqVars, bufVars>>

Next ==
    \/ \E order \in Orders : Insert(order)
    \/ \E order \in Orders : Cancel(order)
    \/ \E order \in Requests : Modify(order)
    \/ Match
    \/ \E order \in Orders : MatchOrder(order)

Spec == Init /\ [][Next]_vars

\* lru_orderbook.cpp
LruRunning == lruStatus # "crash"

AddOrder(order) ==
    /\ LruRunning
    /\ CountOrders(buyOrders, Prices) + CountOrders(sellOrders, Prices) < MaxResting
    /\ \E x \in AddOrderOutcomes(buyOrders, sellOrders, orderMap, orderDeque, fresh, order) :
        /\ buyOrders' = x.buy
        /\ sellOrders' = x.sell
        /\ orderMap' = x.lru.orderMap
        /\ orderDeque' = x.lru.orderDeque
        /\ fresh' = x.lru.fresh
        /\ lruStatus' = x.lru.outcome
    /\ UNCHANGED <<mapVars, handlerVars, procVars, levelVars, levelsVars, registryVars, multiVars, quoterVars, dqVars, bufVars>>

CancelOrder(orderId) ==
    /\ LruRunning
    /\ \E x \in CancelOrderOutcomes(buyOrders, sellOrders, orderMap, orderDeque, fresh, orderId) :
        /\ buyOrders' = x.buy
        /\ sellOrders' = x.sell
        /\ orderMap' = x.lru.orderMap
        /\ orderDeque' = x.lru.orderDeque
        /\ fresh' = x.lru.fresh
        /\ lruStatus' = x.lru.outcome
    /\ UNCHANGED <<mapVars, handlerVars, procVars, levelVars, levelsVars, registryVars, multiVars, quoterVars, dqVars, bufVars>>

NextLru ==
    \/ \E order \in LruOrders : AddOrder(order)
    \/ \E orderId \in OrderIDs : CancelOrder(orderId)

SpecLru == Init /\ [][NextLru]_vars

\* lru/lru_dq.cpp
DqRunning == dqStatus # "crash"

NotDq == <<mapVars, lruVars, handlerVars, procVars, levelVars, levelsVars, registryVars,
           multiVars, quoterVars, bufVars>>

DqGet(key) ==
    /\ DqRunning
    /\ \E x \in DqGetOutcomes(dq, dqCache, dqFresh, key) :
        /\ dq' = x.dq
        /\ dqCache' = x.cache
        /\ dqFresh' = x.fresh
        /\ dqStatus' = x.outcome
    /\ UNCHANGED NotDq

DqPut(key, value) ==
    /\ DqRunning
    /\ \E x \in DqPutOutcomes(dq, dqCache, dqFresh, key, value) :
        /\ dq' = x.dq
        /\ dqCache' = x.cache
        /\ dqFresh' = x.fresh
        /\ dqStatus' = x.outcome
    /\ UNCHANGED NotDq

NextLruDq ==
    \/ \E key \in DqKeys : DqGet(key)
    \/ \E key \in DqKeys, value \in DqValues : DqPut(key, value)

SpecLruDq == Init /\ [][NextLruDq]_vars

\* cache/benchmark/prefetch/CircularBuffer.h
TheBuffer == Buffer(bufData, bufBegin, bufEnd)

NotBuffer == <<mapVars, lruVars, handlerVars, procVars, levelVars, levelsVars, registryVars,
               multiVars, quoterVars, dqVars>>

BufferBecomes(b) ==
    /\ bufData' = b.data
    /\ bufBegin' = b.begin
    /\ bufEnd' = b.end
    /\ UNCHANGED NotBuffer

BufPushFront(value) == BufferBecomes(PushFront(TheBuffer, value))

BufPushBack(value) == BufferBecomes(PushBack(TheBuffer, value))

BufPopFront == BufferBecomes(PopFront(TheBuffer).buffer)

BufPopBack == BufferBecomes(PopBack(TheBuffer).buffer)

NextBuffer ==
    \/ \E value \in BufValues : BufPushFront(value)
    \/ \E value \in BufValues : BufPushBack(value)
    \/ BufPopFront
    \/ BufPopBack

SpecBuffer == Init /\ [][NextBuffer]_vars

\* The matching loops run from the books insert and addOrder build.
\* The orders that come in, in arrival order; the position is the id.
LoopArrivals ==
    UNION {[1..n -> [side : Sides, price : 1..MaxLoopPrice, quantity : 0..MaxLoopQty]]
           : n \in 0..MaxLoopOrders}

\* Orderbook::insert of each arrival in turn (orderbook_map.cpp)
RECURSIVE MapBookOf(_, _)
MapBookOf(arrivals, n) ==
    IF n = 0 THEN [bids |-> <<>>, asks |-> <<>>]
    ELSE LET book == MapBookOf(arrivals, n - 1)
             order == [orderID |-> n, symbol |-> BookSymbol,
                       quantity |-> arrivals[n].quantity, price |-> arrivals[n].price,
                       side |-> arrivals[n].side]
         IN  IF order.side = "Buy"
             THEN [bids |-> MultimapInsert(book.bids, order), asks |-> book.asks]
             ELSE [bids |-> book.bids, asks |-> MultimapInsert(book.asks, order)]

\* OrderBook::addOrder of each arrival in turn (lru_orderbook.cpp)
RECURSIVE LruBookOf(_, _)
LruBookOf(arrivals, n) ==
    IF n = 0 THEN [buy |-> EmptyLevels, sell |-> EmptyLevels]
    ELSE LET book == LruBookOf(arrivals, n - 1)
         IN  BookAddOrder(book.buy, book.sell,
                          [orderId |-> n,
                           type |-> IF arrivals[n].side = "Buy" THEN "buy" ELSE "sell",
                           quantity |-> arrivals[n].quantity, price |-> arrivals[n].price])

InitMatchLoops ==
    /\ \E arrivals \in LoopArrivals :
           \/ /\ bids = MapBookOf(arrivals, Len(arrivals)).bids
              /\ asks = MapBookOf(arrivals, Len(arrivals)).asks
              /\ cache = DOMAIN arrivals
              /\ buyOrders = EmptyLevels
              /\ sellOrders = EmptyLevels
           \/ /\ bids = <<>>
              /\ asks = <<>>
              /\ cache = {}
              /\ buyOrders = LruBookOf(arrivals, Len(arrivals)).buy
              /\ sellOrders = LruBookOf(arrivals, Len(arrivals)).sell
    /\ InitRest

\* OrderBook::matchOrders
BookMatchOrders ==
    /\ LET r == MatchOrders(buyOrders, sellOrders, <<>>)
       IN  /\ buyOrders' = r.buy
           /\ sellOrders' = r.sell
    /\ UNCHANGED <<orderMap, orderDeque, fresh, lruStatus>>
    /\ UNCHANGED <<mapVars, handlerVars, procVars, levelVars, levelsVars, registryVars, multiVars, quoterVars, dqVars, bufVars>>

\* The orders match(order) is given: its loops read their side, price and quantity.
LoopAggressors == {order \in Orders : order.orderID = 1}

NextMatchLoops ==
    \/ Match
    \/ \E order \in LoopAggressors : MatchOrder(order)
    \/ BookMatchOrders

SpecMatchLoops == InitMatchLoops /\ [][NextMatchLoops]_vars

\* orderbookhandler.cpp
HandlerRunning == handlerStatus # "crash"

AddOrderToBook(newOrder) ==
    /\ HandlerRunning
    /\ Len(orderObjects) < MaxHandlerOrders
    /\ \E x \in AddOrderToBookOutcomes(orderObjects, bidLevels, askLevels,
                                       orderMetaDataByOrderIDMap, newOrder) :
        /\ orderObjects' = x.orderObjects
        /\ bidLevels' = x.bidLevels
        /\ askLevels' = x.askLevels
        /\ orderMetaDataByOrderIDMap' = x.orderMetaDataByOrderIDMap
        /\ handlerStatus' = x.outcome
    /\ UNCHANGED <<mapVars, lruVars, procVars, levelVars, levelsVars, registryVars, multiVars, quoterVars, dqVars, bufVars>>

RemoveOrder(id) ==
    /\ HandlerRunning
    /\ \E x \in RemoveOrderFromBookOutcomes(orderObjects, bidLevels, askLevels,
                                            orderMetaDataByOrderIDMap, id) :
        /\ orderObjects' = x.orderObjects
        /\ bidLevels' = x.bidLevels
        /\ askLevels' = x.askLevels
        /\ orderMetaDataByOrderIDMap' = x.orderMetaDataByOrderIDMap
        /\ handlerStatus' = x.outcome
    /\ UNCHANGED <<mapVars, lruVars, procVars, levelVars, levelsVars, registryVars, multiVars, quoterVars, dqVars, bufVars>>

NextHandler ==
    \/ \E newOrder \in HandlerOrders : AddOrderToBook(newOrder)
    \/ \E id \in OrderIDs : RemoveOrder(id)

SpecHandler == Init /\ [][NextHandler]_vars

\* matching_engine.cpp, the draft in comments
ProcessorRunning == procStatus # "crash"

ProcessOrder(order) ==
    /\ ProcessorRunning
    /\ Len(procBuyOrders) + Len(procSellOrders) < MaxProcessorOrders
    /\ \E x \in ProcessOrderOutcomes(procBuyOrders, procSellOrders, orderLookup, order) :
        /\ procBuyOrders' = x.buyOrders
        /\ procSellOrders' = x.sellOrders
        /\ orderLookup' = x.orderLookup
        /\ procStatus' = x.outcome
    /\ UNCHANGED <<mapVars, lruVars, handlerVars, levelVars, levelsVars, registryVars, multiVars, quoterVars, dqVars, bufVars>>

ProcessCancel(id) ==
    /\ ProcessorRunning
    /\ \E x \in ProcessCancelOutcomes(procBuyOrders, procSellOrders, orderLookup, id) :
        /\ procBuyOrders' = x.buyOrders
        /\ procSellOrders' = x.sellOrders
        /\ orderLookup' = x.orderLookup
        /\ procStatus' = x.outcome
    /\ UNCHANGED <<mapVars, lruVars, handlerVars, levelVars, levelsVars, registryVars, multiVars, quoterVars, dqVars, bufVars>>

ProcessModify(modifyRequest) ==
    /\ ProcessorRunning
    /\ Len(procBuyOrders) + Len(procSellOrders) <= MaxProcessorOrders
    /\ \E x \in ProcessModifyOutcomes(procBuyOrders, procSellOrders, orderLookup, modifyRequest) :
        /\ Len(x.buyOrders) + Len(x.sellOrders) <= MaxProcessorOrders
        /\ procBuyOrders' = x.buyOrders
        /\ procSellOrders' = x.sellOrders
        /\ orderLookup' = x.orderLookup
        /\ procStatus' = x.outcome
    /\ UNCHANGED <<mapVars, lruVars, handlerVars, levelVars, levelsVars, registryVars, multiVars, quoterVars, dqVars, bufVars>>

NextProcessor ==
    \/ \E order \in ProcessorOrders : ProcessOrder(order)
    \/ \E id \in ProcessorIds : ProcessCancel(id)
    \/ \E modifyRequest \in ModifyRequests : ProcessModify(modifyRequest)

SpecProcessor == Init /\ [][NextProcessor]_vars

\* tasks/matching_engine/orderbook/pricelevel.cpp
Enqueue(order) ==
    /\ Len(priceLevelOrders) < MaxLevelOrders
    /\ priceLevelOrders' = PriceLevelEnqueue(priceLevelOrders, order)
    /\ UNCHANGED <<mapVars, lruVars, handlerVars, procVars, levelsVars, registryVars, multiVars, quoterVars, dqVars, bufVars>>

LevelRemoveOrder(order) ==
    /\ priceLevelOrders' = PriceLevelRemoveOrder(priceLevelOrders, order).orders
    /\ UNCHANGED <<mapVars, lruVars, handlerVars, procVars, levelsVars, registryVars, multiVars, quoterVars, dqVars, bufVars>>

NextPriceLevel ==
    \/ \E order \in LevelOrders : Enqueue(order)
    \/ \E order \in LevelOrders : LevelRemoveOrder(order)

SpecPriceLevel == Init /\ [][NextPriceLevel]_vars

\* matching_engine/orderbook/pricelevels.cpp
PriceLevelsRunning == priceLevelsStatus # "crash"

BidLevelsAdd(price) ==
    /\ PriceLevelsRunning
    /\ \E x \in PriceLevelsAddOutcomes(bidPriceLevels, price) :
        /\ bidPriceLevels' = x.priceLevels
        /\ priceLevelsStatus' = x.outcome
    /\ UNCHANGED <<askPriceLevels, mapVars, lruVars, handlerVars, procVars, levelVars, registryVars, multiVars, quoterVars, dqVars, bufVars>>

AskLevelsAdd(price) ==
    /\ PriceLevelsRunning
    /\ \E x \in PriceLevelsAddOutcomes(askPriceLevels, price) :
        /\ askPriceLevels' = x.priceLevels
        /\ priceLevelsStatus' = x.outcome
    /\ UNCHANGED <<bidPriceLevels, mapVars, lruVars, handlerVars, procVars, levelVars, registryVars, multiVars, quoterVars, dqVars, bufVars>>

NextPriceLevels ==
    \/ \E price \in LevelPrices : BidLevelsAdd(price)
    \/ \E price \in LevelPrices : AskLevelsAdd(price)

SpecPriceLevels == Init /\ [][NextPriceLevels]_vars

\* tasks/matching_engine/orderbook/check.cpp
RegistryRunning == registryStatus # "crash"

RegistryAddOrder(newOrder) ==
    /\ RegistryRunning
    /\ Len(registryOrderObjects) < MaxRegistryOrders
    /\ \E x \in RegistryAddOrderOutcomes(orderBookByOrderIDMap, registryOrderObjects,
                                         registryMetaData, newOrder) :
        /\ orderBookByOrderIDMap' = x.books
        /\ registryOrderObjects' = x.orderObjects
        /\ registryMetaData' = x.metaData
        /\ registryStatus' = x.outcome
    /\ UNCHANGED <<mapVars, lruVars, handlerVars, procVars, levelVars, levelsVars, multiVars, quoterVars, dqVars, bufVars>>

NextRegistry == \E newOrder \in RegistryOrders : RegistryAddOrder(newOrder)

SpecRegistry == Init /\ [][NextRegistry]_vars

\* lru_orderbook.cpp, several instruments
MultiRunning == multiStatus # "crash"

MultiAddOrder(order) ==
    /\ MultiRunning
    /\ CountBooks(books, Symbols) < MaxMultiResting
    /\ \E x \in MultiAddOrderOutcomes(books, lruCache, order) :
        /\ books' = x.books
        /\ lruCache' = x.lruCache
        /\ multiStatus' = x.outcome
    /\ UNCHANGED <<mapVars, lruVars, handlerVars, procVars, levelVars, levelsVars, registryVars, quoterVars, dqVars, bufVars>>

MultiCancelOrder(orderId) ==
    /\ MultiRunning
    /\ \E x \in MultiCancelOrderOutcomes(books, lruCache, orderId) :
        /\ books' = x.books
        /\ lruCache' = x.lruCache
        /\ multiStatus' = x.outcome
    /\ UNCHANGED <<mapVars, lruVars, handlerVars, procVars, levelVars, levelsVars, registryVars, quoterVars, dqVars, bufVars>>

NextMulti ==
    \/ \E order \in MultiOrders : MultiAddOrder(order)
    \/ \E orderId \in OrderIDs : MultiCancelOrder(orderId)

SpecMulti == Init /\ [][NextMulti]_vars

\* InstrumentQuoter
TheQuoter ==
    Quoter(currentTheoreticalPrice, exchangeBid, exchangeAsk, nextOrderId, quoterOrders)

NotQuoter == <<mapVars, lruVars, handlerVars, procVars, levelVars, levelsVars, registryVars,
               multiVars, dqVars, bufVars>>

\* The quoter and the exchange after a market update that gave r
Updated(r) ==
    /\ currentTheoreticalPrice' = r.q.currentTheoreticalPrice
    /\ exchangeBid' = r.q.exchangeBid
    /\ exchangeAsk' = r.q.exchangeAsk
    /\ nextOrderId' = r.q.nextOrderId
    /\ quoterOrders' = r.q.orders
    /\ requests' = [removes |-> r.removes, adds |-> r.adds]
    /\ removing' = removing \cup r.removed
    /\ UNCHANGED NotQuoter

OnTheoreticalPrice(theoreticalPrice) ==
    /\ nextOrderId + 1 <= MaxQuoteId
    /\ Updated(ProcessMarketUpdate([TheQuoter EXCEPT !.currentTheoreticalPrice = theoreticalPrice]))

OnBestBidOffer(bidPrice, offerPrice) ==
    /\ nextOrderId + 1 <= MaxQuoteId
    /\ Updated(ProcessMarketUpdate([TheQuoter EXCEPT !.exchangeBid = bidPrice,
                                                      !.exchangeAsk = offerPrice]))

OnTheoreticalPriceHpp(theoreticalPrice) ==
    /\ nextOrderId + 1 <= MaxQuoteId
    /\ Updated(ProcessMarketUpdateHpp([TheQuoter EXCEPT !.currentTheoreticalPrice = theoreticalPrice]))

OnBestBidOfferHpp(bidPrice, offerPrice) ==
    /\ nextOrderId + 1 <= MaxQuoteId
    /\ Updated(ProcessMarketUpdateHpp([TheQuoter EXCEPT !.exchangeBid = bidPrice,
                                                         !.exchangeAsk = offerPrice]))

\* The exchange confirms an add it was asked for.
OnOrderAddConfirm(id) ==
    /\ id < nextOrderId
    /\ quoterOrders' = IF id \in DOMAIN quoterOrders
                       THEN [quoterOrders EXCEPT ![id].isPending = FALSE]
                       ELSE quoterOrders
    /\ requests' = NoRequests
    /\ UNCHANGED <<currentTheoreticalPrice, exchangeBid, exchangeAsk, nextOrderId, removing>>
    /\ UNCHANGED NotQuoter

\* The exchange confirms a removal it was asked for.
OnOrderRemoveConfirm(id) ==
    /\ \E r \in removing : r.id = id
    /\ quoterOrders' = [k \in DOMAIN quoterOrders \ {id} |-> quoterOrders[k]]
    /\ removing' = {r \in removing : r.id # id}
    /\ requests' = NoRequests
    /\ UNCHANGED <<currentTheoreticalPrice, exchangeBid, exchangeAsk, nextOrderId>>
    /\ UNCHANGED NotQuoter

QuoteIds == 1..MaxQuoteId

NextQuoter ==
    \/ \E theoreticalPrice \in QuoterPrices : OnTheoreticalPrice(theoreticalPrice)
    \/ \E bidPrice, offerPrice \in QuoterPrices : OnBestBidOffer(bidPrice, offerPrice)
    \/ \E id \in QuoteIds : OnOrderAddConfirm(id)
    \/ \E id \in QuoteIds : OnOrderRemoveConfirm(id)

SpecQuoter == Init /\ [][NextQuoter]_vars

NextQuoterHpp ==
    \/ \E theoreticalPrice \in QuoterPrices : OnTheoreticalPriceHpp(theoreticalPrice)
    \/ \E bidPrice, offerPrice \in QuoterPrices : OnBestBidOfferHpp(bidPrice, offerPrice)
    \/ \E id \in QuoteIds : OnOrderAddConfirm(id)
    \/ \E id \in QuoteIds : OnOrderRemoveConfirm(id)

SpecQuoterHpp == Init /\ [][NextQuoterHpp]_vars

----------------------------------------------------------------------------
(* What the claims speak of                                                *)

PricesOf(m) == {m[i].price : i \in DOMAIN m}
Highest(S) == CHOOSE p \in S : \A q \in S : q <= p
Lowest(S) == CHOOSE p \in S : \A q \in S : p <= q
IdsOf(m) == {m[i].orderID : i \in DOMAIN m}

\* The price level of p on a side: its orders in arrival order (equal keys keep
\* their insertion order in a multimap).
LevelOf(m, p) == SelectSeq(m, LAMBDA o : o.price = p)

\* The best price of the side an incoming order of that side trades against.
BestOpposite(side, m) == IF side = "Buy" THEN Lowest(PricesOf(m)) ELSE Highest(PricesOf(m))
Crosses(side, limit, p) == IF side = "Buy" THEN limit >= p ELSE limit <= p
OppositeOf(r, side) == IF side = "Buy" THEN r.asks ELSE r.bids
OwnOf(r, side) == IF side = "Buy" THEN r.bids ELSE r.asks

RECURSIVE SumQty(_)
SumQty(f) == IF f = <<>> THEN 0 ELSE f[1].qty + SumQty(Tail(f))

\* C1: after every processed event, when both sides hold orders the highest
\* resting bid price is strictly below the lowest resting ask price.
C1_NoCrossedBook ==
    (bids # <<>> /\ asks # <<>>) => Highest(PricesOf(bids)) < Lowest(PricesOf(asks))

\* C2: time priority on both sides: an incoming order's fill is never against an
\* order while an order that arrived earlier rests at the same price on that side.
C2_TimePriority ==
    \A o \in Orders :
        LET r == MatchOrderResult(bids, asks, o)
        IN  \A k \in DOMAIN r.fills :
                LET f == r.fills[k]
                IN  LevelOf(f.book, f.price)[1].orderID = f.rest

\* C3: when match(order) returns, the order is filled, or the opposite side is
\* empty, or the best opposite price does not cross the limit; and every fill was
\* against a resting order whose price crossed the limit.
C3_MatchMaximalOnCrossing ==
    \A o \in Orders :
        LET r == MatchOrderResult(bids, asks, o)
            opp == OppositeOf(r, o.side)
        IN  /\ \/ r.order.quantity = 0
               \/ opp = <<>>
               \/ ~Crosses(o.side, o.price, BestOpposite(o.side, opp))
            /\ \A k \in DOMAIN r.fills : Crosses(o.side, o.price, r.fills[k].price)

\* A book in which an incoming order trades and then stops at a price beyond its
\* limit, with quantity left and the opposite side not empty.
C3_Witness ==
    \E o \in Orders :
        LET r == MatchOrderResult(bids, asks, o)
        IN  /\ r.fills # <<>>
            /\ r.order.quantity > 0
            /\ OppositeOf(r, o.side) # <<>>

\* C4: price priority: every fill is against the head (oldest) order of the
\* best-priced opposite level at that moment, so no order trades while a strictly
\* better priced opposite order rests.
C4_PricePriority ==
    \A o \in Orders :
        LET r == MatchOrderResult(bids, asks, o)
        IN  \A k \in DOMAIN r.fills :
                LET f == r.fills[k]
                    best == BestOpposite(o.side, f.book)
                IN  /\ f.price = best
                    /\ f.rest = LevelOf(f.book, best)[1].orderID

RestingPrices(buy, sell, id) ==
    {p \in Prices : \E i \in DOMAIN buy[p] : buy[p][i].orderId = id}
    \cup {p \in Prices : \E i \in DOMAIN sell[p] : sell[p][i].orderId = id}

\* C5: every trade an addOrder writes carries the price of the resting order, never
\* the limit of the incoming one, and names the incoming order as aggressor and the
\* order that was in the book as resting.
C5_TradeAtRestingPrice ==
    \A o \in LruOrders :
        \A x \in AddOrderOutcomes(buyOrders, sellOrders, orderMap, orderDeque, fresh, o) :
            \A k \in DOMAIN x.out :
                LET trade == x.out[k]
                IN  /\ {"aggressor", "resting", "price"} \subseteq DOMAIN trade
                    /\ trade.aggressor = o.orderId
                    /\ trade.price \in RestingPrices(buyOrders, sellOrders, trade.resting)

FillsConserve(fills, start, left) ==
    /\ \A k \in DOMAIN fills :
            /\ fills[k].qty = Min(fills[k].aggRem, fills[k].restRem)
            /\ fills[k].qty > 0
            /\ fills[k].aggRem = start - SumQty(SubSeq(fills, 1, k - 1))
    /\ left = start - SumQty(fills)
    /\ SumQty(fills) <= start
    /\ left >= 0

\* C6: quantity conservation: every fill is of min(aggressor remaining, resting
\* remaining) > 0 and takes exactly that from both; the fills of one call sum to at
\* most the incoming quantity; no remaining quantity is negative.
C6_QuantityConservation ==
    /\ \A o \in Orders :
            LET r == MatchOrderResult(bids, asks, o)
            IN  /\ FillsConserve(r.fills, o.quantity, r.order.quantity)
                /\ \A i \in DOMAIN r.bids : r.bids[i].quantity >= 0
                /\ \A i \in DOMAIN r.asks : r.asks[i].quantity >= 0
    /\ \A k \in DOMAIN MatchLoop(bids, asks, <<>>).fills :
            LET f == MatchLoop(bids, asks, <<>>).fills[k]
            IN  f.qty = Min(f.aggRem, f.restRem) /\ f.qty > 0

\* C7: after every processed event the ids of the order index are exactly the ids
\* of the resting orders.
C7_IndexIsRestingOrders == cache = IdsOf(bids) \cup IdsOf(asks)

\* C8: after matching, an order with quantity left rests at the tail of the level
\* of its price on its own side and has an index entry; a filled order does not
\* rest and has none.
C8_RemainderRests ==
    \A o \in Orders :
        LET r == MatchOrderResult(bids, asks, o)
            level == LevelOf(OwnOf(r, o.side), o.price)
        IN  IF r.order.quantity > 0
            THEN /\ level # <<>>
                 /\ level[Len(level)] = r.order
                 /\ o.orderID \in cache
            ELSE o.orderID \notin IdsOf(r.bids) \cup IdsOf(r.asks) \cup cache

RestingObjects(levels) == UNION {{levels[i].orders[k] : k \in DOMAIN levels[i].orders}
                                 : i \in DOMAIN levels}

\* C9: an IOC order never rests: once it has been processed, whether it traded or
\* not, no price level holds it.
C9_IocNeverRests ==
    \A h \in RestingObjects(bidLevels) \cup RestingObjects(askLevels) :
        orderObjects[h].type # "IOC"

LruRestingIds(buy, sell) ==
    UNION {{buy[p][i].orderId : i \in DOMAIN buy[p]} \cup {sell[p][i].orderId : i \in DOMAIN sell[p]}
           : p \in Prices}
Without(v, id) == SelectSeq(v, LAMBDA o : o.orderId # id)

\* C10: cancel of a resting order removes exactly that order: it is in no price
\* level any more, the index has no entry for it, and the other resting orders
\* keep their quantity and their place.
C10_CancelRemovesTheOrder ==
    \A id \in orderMap \cap LruRestingIds(buyOrders, sellOrders) :
        \A x \in CancelOrderOutcomes(buyOrders, sellOrders, orderMap, orderDeque, fresh, id) :
            x.lru.outcome # "crash" =>
                /\ id \notin LruRestingIds(x.buy, x.sell)
                /\ id \notin x.lru.orderMap
                /\ \A p \in Prices : /\ x.buy[p] = Without(buyOrders[p], id)
                                     /\ x.sell[p] = Without(sellOrders[p], id)

\* C11: cancel of an id that is not in the index (never admitted or already
\* cancelled) returns the benign not-found result, raises no error and leaves both
\* sides and the index unchanged.
C11_CancelAbsentIsBenign ==
    \A o \in Orders :
        o.orderID \notin cache =>
            \A x \in CancelOutcomes(bids, asks, cache, o) :
                /\ x.outcome = "ok"
                /\ x.bids = bids
                /\ x.asks = asks
                /\ x.cache = cache

\* The order the cache entry of id designates, while that entry is live.
RestingOrder(b, a, id) ==
    IF Holds(b, id) THEN b[NodeAt(b, id)] ELSE a[NodeAt(a, id)]

\* A modify request for a resting order that names its symbol and side and changes
\* its price or its quantity.
ChangesResting(b, a, c, order) ==
    /\ Live(b, a, c, order.orderID)
    /\ order.side = RestingOrder(b, a, order.orderID).side
    /\ \/ order.price # RestingOrder(b, a, order.orderID).price
       \/ order.quantity # RestingOrder(b, a, order.orderID).quantity

\* C12: modify loses priority: a modified order, also one whose quantity alone
\* changed, is behind every order that rested at its price before the modify: it
\* is the tail of its level.
C12_ModifyLosesPriority ==
    \A order \in Orders :
        ChangesResting(bids, asks, cache, order) =>
            \A x \in ModifyOutcomes(bids, asks, cache, order) :
                LET level == LevelOf(OwnOf(x, order.side), order.price)
                IN  /\ level # <<>>
                    /\ level[Len(level)].orderID = order.orderID

\* C13: modify of a resting order has exactly the effect of cancel of that order
\* followed by the admission of a new order with the same id and the new price,
\* quantity and side (the side may change): book and index end in the same state.
C13_ModifyIsCancelThenNew ==
    \A order \in Orders :
        Live(bids, asks, cache, order.orderID) =>
            ModifyOutcomes(bids, asks, cache, order)
                = UNION {InsertOutcomes(y.bids, y.asks, y.cache, order)
                         : y \in CancelOutcomes(bids, asks, cache,
                                                RestingOrder(bids, asks, order.orderID))}

\* The orders of the draft's two multisets that carry the id.
ProcResting(id) ==
    {procBuyOrders[i] : i \in {j \in DOMAIN procBuyOrders : procBuyOrders[j].id = id}}
    \cup {procSellOrders[i] : i \in {j \in DOMAIN procSellOrders : procSellOrders[j].id = id}}

\* C14: a MODIFY that names an IOC order is rejected and leaves the orders and the
\* lookup unchanged; a MODIFY that names a resting GFD order is not rejected as
\* non-modifiable.
C14_ModifyRejectedOnlyForIoc ==
    /\ \A id \in orderLookup : \A o \in ProcResting(id) : IsModifiable(o) <=> o.type # "IOC"
    /\ \A req \in ModifyRequests :
        (IsValid(req) /\ req.id \in orderLookup) =>
            \A x \in ProcessModifyOutcomes(procBuyOrders, procSellOrders, orderLookup, req) :
                /\ (\E o \in ProcResting(req.id) : o.type = "IOC") =>
                        /\ x.buyOrders = procBuyOrders
                        /\ x.sellOrders = procSellOrders
                        /\ x.orderLookup = orderLookup
                /\ (ProcResting(req.id) # {} /\ \A o \in ProcResting(req.id) : o.type = "GFD") =>
                        x.outcome # "ignored"

\* C15: a NEW order whose id is the id of a resting order is rejected: the book is
\* as before it and nothing is matched; and no two resting orders share an id.
C15_DuplicateNewRejected ==
    /\ CountOrders(buyOrders, Prices) + CountOrders(sellOrders, Prices)
            = Cardinality(LruRestingIds(buyOrders, sellOrders))
    /\ \A order \in LruOrders :
        order.orderId \in LruRestingIds(buyOrders, sellOrders) =>
            \A x \in AddOrderOutcomes(buyOrders, sellOrders, orderMap, orderDeque, fresh, order) :
                x.buy = buyOrders /\ x.sell = sellOrders /\ x.out = <<>>

\* C16: a NEW of quantity <= 0 (or of price <= 0) is rejected with no state
\* change: neither book side nor the index is other than before it, so the next
\* event meets the state it would have met without it.
C16_MalformedNewRejected ==
    \A order \in Orders :
        (order.quantity <= 0 \/ order.price <= 0) =>
            \A x \in InsertOutcomes(bids, asks, cache, order) :
                x.bids = bids /\ x.asks = asks /\ x.cache = cache

\* C17: no error condition (duplicate id on NEW, unknown id on CANCEL or MODIFY)
\* ends in an exception: after every event the call has returned to its caller.
C17_NoExceptionReachable == status # "throw"

\* C18: partial fill of a resting order: when the incoming order crosses and its
\* quantity is smaller than that of the head (oldest) order of the best opposite
\* level, there is exactly one fill, of the incoming order's whole quantity and
\* against that head order; the incoming order ends at 0 and does not rest; the
\* head order is still the head of its level with its quantity reduced by the
\* fill, and its index entry is still there.
C18_PartialFillOfResting ==
    \A o \in Orders :
        LET opp == IF o.side = "Buy" THEN asks ELSE bids
        IN  (opp # <<>> /\ o.quantity > 0 /\ Crosses(o.side, o.price, BestOpposite(o.side, opp))) =>
                LET best == BestOpposite(o.side, opp)
                    head == LevelOf(opp, best)[1]
                    r == MatchOrderResult(bids, asks, o)
                    level == LevelOf(OppositeOf(r, o.side), best)
                IN  o.quantity < head.quantity =>
                        /\ Len(r.fills) = 1
                        /\ r.fills[1].qty = o.quantity
                        /\ r.fills[1].rest = head.orderID
                        /\ r.order.quantity = 0
                        /\ OwnOf(r, o.side) = (IF o.side = "Buy" THEN bids ELSE asks)
                        /\ level # <<>>
                        /\ level[1] = [head EXCEPT !.quantity = @ - o.quantity]
                        /\ head.orderID \in cache

\* s keeps the order of t: s is t with some elements taken out, the others in the
\* places they had relative to each other.
RECURSIVE KeepsOrderOf(_, _)
KeepsOrderOf(s, t) ==
    IF s = <<>> THEN TRUE
    ELSE IF t = <<>> THEN FALSE
    ELSE IF s[1] = t[1] /\ KeepsOrderOf(Tail(s), Tail(t)) THEN TRUE
    ELSE KeepsOrderOf(s, Tail(t))

\* C19: within a price level the orders are in arrival order, the place in the
\* deque being the arrival sequence: an enqueued order (new or put in again) goes
\* to the tail, behind every order that arrived earlier, which all keep their
\* places; and removing an order leaves every other order in, in the relative
\* order they had.
C19_LevelKeepsArrivalOrder ==
    \A order \in LevelOrders :
        /\ LET enqueued == PriceLevelEnqueue(priceLevelOrders, order)
           IN  /\ Len(enqueued) = Len(priceLevelOrders) + 1
               /\ enqueued[Len(enqueued)] = order
               /\ \A i \in DOMAIN priceLevelOrders : enqueued[i] = priceLevelOrders[i]
        /\ LET left == PriceLevelRemoveOrder(priceLevelOrders, order).orders
           IN  /\ KeepsOrderOf(left, priceLevelOrders)
               /\ \A i \in DOMAIN left : left[i].id # order.id
               /\ Len(left) = Cardinality({i \in DOMAIN priceLevelOrders :
                                               priceLevelOrders[i].id # order.id})

\* A level of three orders, the middle one of another id than its neighbours:
\* orders were enqueued behind others, and removing the middle one leaves two.
C19_Witness ==
    /\ Len(priceLevelOrders) >= 3
    /\ priceLevelOrders[1].id # priceLevelOrders[2].id
    /\ priceLevelOrders[3].id # priceLevelOrders[2].id

\* C20: on each side of the book no two price levels have the same price, and
\* every order that rests in a price level has the price of that level.
C20_OneLevelPerPrice ==
    \A levels \in {bidLevels, askLevels} :
        /\ \A i, j \in DOMAIN levels : i # j => levels[i].price # levels[j].price
        /\ \A i \in DOMAIN levels : \A k \in DOMAIN levels[i].orders :
                orderObjects[levels[i].orders[k]].price = levels[i].price

\* C21: the levels of each side are in best-first price order, bids by descending
\* and asks by ascending price, so that the level at the front, the one reported
\* as best, has the highest bid price, respectively the lowest ask price.
C21_LevelsBestFirst ==
    /\ \A i, j \in DOMAIN bidPriceLevels :
            i < j => bidPriceLevels[i].price > bidPriceLevels[j].price
    /\ \A i, j \in DOMAIN askPriceLevels :
            i < j => askPriceLevels[i].price < askPriceLevels[j].price

\* C22: a price level is removed when its last order is cancelled: after the
\* cancel of an order that rests alone at its price, the side has no level of
\* that price any more.
C22_LevelGoesWithLastOrder ==
    \A id \in orderMap : \A p \in Prices :
        \A x \in CancelOrderOutcomes(buyOrders, sellOrders, orderMap, orderDeque, fresh, id) :
            x.lru.outcome # "crash" =>
                /\ (Len(buyOrders[p]) = 1 /\ buyOrders[p][1].orderId = id) => p \notin LevelKeys(x.buy)
                /\ (Len(sellOrders[p]) = 1 /\ sellOrders[p][1].orderId = id) => p \notin LevelKeys(x.sell)

\* C23: the registry holds one book per distinct symbol: no two of its books
\* carry the same symbol, so that orders of different ids and the same symbol are
\* in the same book; and every order that rests in a book is of the book's symbol.
C23_OneBookPerSymbol ==
    /\ \A j, k \in DOMAIN orderBookByOrderIDMap :
            j # k => orderBookByOrderIDMap[j].symbol # orderBookByOrderIDMap[k].symbol
    /\ \A k \in DOMAIN orderBookByOrderIDMap :
            \A h \in RestingObjects(orderBookByOrderIDMap[k].bidLevels)
                     \cup RestingObjects(orderBookByOrderIDMap[k].askLevels) :
                registryOrderObjects[h].sym = orderBookByOrderIDMap[k].symbol

\* The index entries of the orders that rest in the book of an instrument.
IndexOf(bs, c, instrument) ==
    LruRestingIds(bs[instrument].buy, bs[instrument].sell) \cap c.orderMap

\* C24: instrument isolation: an event for one instrument (an order added to its
\* book, or the cancel of an order that rests in it) leaves the book of every
\* other instrument and the index entries of that book's orders as they were,
\* also when orders of different instruments carry the same id.
C24_InstrumentIsolation ==
    \A X \in Symbols : \A Y \in Symbols \ {X} :
        /\ \A order \in {o \in MultiOrders : o.instrument = X} :
            \A x \in MultiAddOrderOutcomes(books, lruCache, order) :
                x.outcome # "crash" =>
                    /\ x.books[Y] = books[Y]
                    /\ IndexOf(x.books, x.lruCache, Y) = IndexOf(books, lruCache, Y)
        /\ \A orderId \in LruRestingIds(books[X].buy, books[X].sell) :
            \A x \in MultiCancelOrderOutcomes(books, lruCache, orderId) :
                x.outcome # "crash" =>
                    /\ x.books[Y] = books[Y]
                    /\ IndexOf(x.books, x.lruCache, Y) = IndexOf(books, lruCache, Y)

\* C25: InstrumentQuoter asks for no add on a side while a removal it asked for
\* on that side is not confirmed: every requestOrderAdd of the call just made is
\* for a side on which no order is being removed at the exchange.
C25_RemoveConfirmedBeforeAdd ==
    \A i \in DOMAIN requests.adds :
        ~\E r \in removing : r.side = requests.adds[i].side

\* The sides of the add requests, in the order made
SidesOf(adds) == [i \in DOMAIN adds |-> adds[i].side]

\* C26: InstrumentQuoter (InstrumentQuoter.hpp) tracks at most one quote, pending
\* or live, on a side; every requestOrderAdd of the call just made is for a side
\* on which it tracks no other quote; with no quote tracked and a theoretical
\* price set, a market update asks for exactly one buy and one sell; and the
\* update that follows it asks for no add.
C26_OneQuotePerSide ==
    /\ \A a, b \in DOMAIN quoterOrders :
           quoterOrders[a].side = quoterOrders[b].side => a = b
    /\ \A i \in DOMAIN requests.adds :
           /\ requests.adds[i].id \in DOMAIN quoterOrders
           /\ \A k \in DOMAIN quoterOrders :
                  quoterOrders[k].side = requests.adds[i].side => k = requests.adds[i].id
    /\ \A theoreticalPrice \in QuoterPrices :
           LET r == ProcessMarketUpdateHpp(
                        [TheQuoter EXCEPT !.currentTheoreticalPrice = theoreticalPrice])
           IN  /\ (DOMAIN quoterOrders = {} /\ theoreticalPrice # 0)
                      => SidesOf(r.adds) = <<"B", "S">>
               /\ Len(requests.adds) = 2 => r.adds = <<>>
    /\ \A bidPrice, offerPrice \in QuoterPrices :
           LET r == ProcessMarketUpdateHpp(
                        [TheQuoter EXCEPT !.exchangeBid = bidPrice,
                                          !.exchangeAsk = offerPrice])
           IN  /\ (DOMAIN quoterOrders = {} /\ currentTheoreticalPrice # 0)
                      => SidesOf(r.adds) = <<"B", "S">>
               /\ Len(requests.adds) = 2 => r.adds = <<>>

\* A market update found no quote tracked and has just asked for a buy and a sell.
C26_Witness ==
    /\ SidesOf(requests.adds) = <<"B", "S">>
    /\ Cardinality(DOMAIN quoterOrders) = 2
    /\ requests.removes = {}

\* C27: every requestOrderAdd of the call just made carries a price at least
\* quoteOffset away from the theoretical price the quoter then has: below it
\* for a buy, above it for a sell.
C27_NotCloserThanOffset ==
    \A i \in DOMAIN requests.adds :
        IF requests.adds[i].side = "B"
        THEN currentTheoreticalPrice - requests.adds[i].price >= QuoteOffset
        ELSE requests.adds[i].price - currentTheoreticalPrice >= QuoteOffset

\* C28: every requestOrderAdd of the call just made carries a price that does
\* not cross the exchange's best bid and offer as the quoter then knows them: a
\* buy is strictly below the best offer when one is set, a sell strictly above
\* the best bid when one is set.
C28_NotCrossingWhenSent ==
    \A i \in DOMAIN requests.adds :
        IF requests.adds[i].side = "B"
        THEN exchangeAsk > 0 => requests.adds[i].price < exchangeAsk
        ELSE exchangeBid > 0 => requests.adds[i].price > exchangeBid

\* The quantity of every order of multimap m that is also in multimap n at the
\* same price is the same in both.
SameQuantities(m, n) ==
    \A i \in DOMAIN m : \A k \in DOMAIN n :
        (m[i].orderID = n[k].orderID /\ m[i].price = n[k].price)
            => m[i].quantity = n[k].quantity

\* C29: every resting order has a quantity above zero, and no insert, cancel or
\* modify that succeeds changes the quantity of an order that rests at the same
\* price before and after it.
C29_QuantityChangesOnlyInTrades ==
    /\ \A i \in DOMAIN bids : bids[i].quantity > 0
    /\ \A i \in DOMAIN asks : asks[i].quantity > 0
    /\ \A order \in Orders :
           \A x \in InsertOutcomes(bids, asks, cache, order)
                    \cup CancelOutcomes(bids, asks, cache, order)
                    \cup ModifyOutcomes(bids, asks, cache, order) :
               x.outcome = "ok" =>
                   SameQuantities(bids, x.bids) /\ SameQuantities(asks, x.asks)

\* Multimap m without the orders of id
WithoutId(m, id) == SelectSeq(m, LAMBDA o : o.orderID # id)

\* C30: cancel of an order that rests succeeds whatever side, price and quantity
\* the request carries: it takes the order of that id out of the multimap that
\* holds it and out of the cache and leaves every other order as it was.
C30_CancelByIdAlone ==
    \A order \in Orders :
        Live(bids, asks, cache, order.orderID) =>
            \A x \in CancelOutcomes(bids, asks, cache, order) :
                /\ x.outcome = "ok"
                /\ x.bids = WithoutId(bids, order.orderID)
                /\ x.asks = WithoutId(asks, order.orderID)
                /\ x.cache = cache \ {order.orderID}

\* C31: the matching loops end from every book, also one that holds orders of
\* quantity 0: match() and matchOrders() make no more iterations than the book
\* has orders, match(order) no more than the opposite side has, and when match()
\* or matchOrders() returns, a side is empty or the best bid is strictly below
\* the best ask.
C31_MatchLoopsTerminate ==
    /\ LET r == MatchLoop(bids, asks, <<>>)
       IN  /\ Len(r.fills) <= Len(bids) + Len(asks)
           /\ \/ r.bids = <<>>
              \/ r.asks = <<>>
              \/ BestBid(r.bids).price < BestAsk(r.asks).price
    /\ \A order \in LoopAggressors :
           Len(MatchOrderResult(bids, asks, order).fills)
               <= (IF order.side = "Buy" THEN Len(asks) ELSE Len(bids))
    /\ LET r == MatchOrders(buyOrders, sellOrders, <<>>)
       IN  /\ Len(r.out) <= CountOrders(buyOrders, Prices) + CountOrders(sellOrders, Prices)
           /\ \/ LevelKeys(r.buy) = {}
              \/ LevelKeys(r.sell) = {}
              \/ HighestBuy(r.buy) < LowestSell(r.sell)

\* match() has run from a book of three orders, one of them of quantity 0: it
\* took the two orders that crossed and left the bids with the order of
\* quantity 0 and the asks empty.
C31_Witness ==
    /\ Cardinality(cache) = 3
    /\ Len(bids) = 1
    /\ bids[1].quantity = 0
    /\ asks = <<>>

\* C32: PriceLevels::find(price) gives (true, the position of the level of that
\* price) when there is one and (false, end()) when there is none, and
\* PriceLevels::add(price) ends well, appends a level of that price only when
\* there is none and otherwise leaves the collection as it is.
C32_FindAndAddByPrice ==
    \A priceLevels \in {bidPriceLevels, askPriceLevels} : \A price \in LevelPrices :
        LET result == PriceLevelsFind(priceLevels, price)
            present == \E i \in DOMAIN priceLevels : priceLevels[i].price = price
        IN  /\ present => /\ result.first
                          /\ result.second \in DOMAIN priceLevels
                          /\ priceLevels[result.second].price = price
            /\ ~present => /\ ~result.first
                           /\ result.second = Len(priceLevels) + 1
            /\ \A x \in PriceLevelsAddOutcomes(priceLevels, price) :
                   /\ x.outcome = "ok"
                   /\ x.priceLevels = IF present THEN priceLevels
                                      ELSE Append(priceLevels, PriceLevelOf(price))

\* C33: PriceLevel::findOrder(order) gives (true, the position of a queued order
\* of that id) when the level holds one, wherever in the queue it is, and
\* (false, end()) when it holds none.
C33_FindOrderById ==
    \A order \in LevelOrders :
        LET result == PriceLevelFindOrder(priceLevelOrders, order)
            held == \E i \in DOMAIN priceLevelOrders : priceLevelOrders[i].id = order.id
        IN  /\ held => /\ result.first
                       /\ result.second \in DOMAIN priceLevelOrders
                       /\ priceLevelOrders[result.second].id = order.id
            /\ ~held => /\ ~result.first
                        /\ result.second = Len(priceLevelOrders) + 1

\* The metadata mirrors the levels: every order of a level has an entry whose
\* prevOrder and nextOrder are its neighbours in the level (null at the ends),
\* and firstOrder and lastOrder are the level's front and back.
MirrorsLevels(levels, meta) ==
    \A i \in DOMAIN levels :
        LET orders == levels[i].orders
        IN  /\ orders # <<>> => /\ levels[i].firstOrder = orders[1]
                                /\ levels[i].lastOrder = orders[Len(orders)]
            /\ \A k \in DOMAIN orders :
                   LET id == orderObjects[orders[k]].id
                   IN  /\ id \in DOMAIN meta
                       /\ meta[id].prevOrder = IF k > 1 THEN orders[k - 1] ELSE NullOrder
                       /\ meta[id].nextOrder = IF k < Len(orders) THEN orders[k + 1]
                                               ELSE NullOrder

\* C34: after any addOrderToBook and removeOrder calls the order metadata is a
\* doubly-linked list that mirrors each price level, and there is metadata for
\* exactly the ids of the orders in the book.
C34_MetaDataMirrorsLevels ==
    /\ MirrorsLevels(bidLevels, orderMetaDataByOrderIDMap)
    /\ MirrorsLevels(askLevels, orderMetaDataByOrderIDMap)
    /\ DOMAIN orderMetaDataByOrderIDMap
           = {orderObjects[h].id : h \in RestingObjects(bidLevels) \cup RestingObjects(askLevels)}

\* C35: in LRUCache of lru_dq.cpp every get and put ends well; put of a new key
\* into a full cache takes out exactly the key at the back of the recency
\* sequence; get of a cached key returns its value and puts the key at the
\* front; get of a key that is not cached returns -1 and changes nothing.
C35_LruGetAndPut ==
    \A key \in DqKeys :
        /\ \A x \in DqGetOutcomes(dq, dqCache, dqFresh, key) :
               /\ x.outcome = "ok"
               /\ IF key \in DOMAIN dqCache
                  THEN /\ x.returned = dqCache[key]
                       /\ x.dq = <<key>> \o SelectSeq(dq, LAMBDA k : k # key)
                       /\ x.cache = dqCache
                  ELSE /\ x.returned = NotFound
                       /\ x.dq = dq
                       /\ x.cache = dqCache
        /\ \A value \in DqValues :
               \A x \in DqPutOutcomes(dq, dqCache, dqFresh, key, value) :
                   /\ x.outcome = "ok"
                   /\ (key \notin DOMAIN dqCache /\ Len(dq) = DqCapacity)
                          => /\ DOMAIN x.cache = (DOMAIN dqCache \ {dq[Len(dq)]}) \cup {key}
                             /\ x.dq = <<key>> \o SubSeq(dq, 1, Len(dq) - 1)

\* C36: the LRUCache of lru_orderbook.cpp never holds more ids than its
\* capacity; the ids of orderMap are those of orderDeque, each there once; and
\* every iterator orderMap keeps designates the element of its own id, which
\* it does only while it is valid.
C36_MapMirrorsRecency ==
    /\ Cardinality(orderMap) <= LruCapacity
    /\ Len(orderDeque) <= LruCapacity
    /\ orderMap = {orderDeque[i] : i \in DOMAIN orderDeque}
    /\ \A i, k \in DOMAIN orderDeque : orderDeque[i] = orderDeque[k] => i = k
    /\ \A id \in orderMap : id = fresh

\* The elements of the buffer from front() to back(): the size() slots from
\* _begin on, around the end of _data
Contents(b) == [i \in 1..BufSize(b) |-> b.data[(b.begin + i - 1) % DataSize(b)]]

\* C37: on a buffer that is not empty pop_back() returns what back() returned
\* and pop_front() what front() returned; each takes that one element off its
\* end and leaves the others in their order.
C37_PopReturnsEnd ==
    ~BufEmpty(TheBuffer) =>
        /\ PopBack(TheBuffer).returned = Back(TheBuffer)
        /\ Contents(PopBack(TheBuffer).buffer)
               = SubSeq(Contents(TheBuffer), 1, BufSize(TheBuffer) - 1)
        /\ PopFront(TheBuffer).returned = Front(TheBuffer)
        /\ Contents(PopFront(TheBuffer).buffer) = Tail(Contents(TheBuffer))

\* C38: after push_front(v) front() is v and the elements stored before follow
\* it in their order; after push_back(v) back() is v behind them; a full buffer
\* first drops the element at the opposite end and stays at size capacity().
C38_PushPutsAtEnd ==
    \A value \in BufValues :
        LET before == Contents(TheBuffer)
            n == Len(before)
        IN  /\ Front(PushFront(TheBuffer, value)) = value
            /\ Contents(PushFront(TheBuffer, value))
                   = <<value>> \o (IF BufFull(TheBuffer) THEN SubSeq(before, 1, n - 1)
                                   ELSE before)
            /\ Back(PushBack(TheBuffer, value)) = value
            /\ Contents(PushBack(TheBuffer, value))
                   = Append(IF BufFull(TheBuffer) THEN Tail(before) ELSE before, value)
            /\ BufFull(TheBuffer) => n = BufCapacity

====
